---- MODULE Spec2Model ----
(***************************************************************************)
(* Round lifecycle of the blind typing competition: the room state machine *)
(* (roomState.js), round start / round end / result submission (admin.js)  *)
(* and room entry (room.js), over one shared document store.               *)
(*                                                                         *)
(* Every exported async function is split at its awaits: one action per    *)
(* store read or write, so that two clients running the same function      *)
(* interleave exactly where the JavaScript event loop lets them.           *)
(* Numeric metrics are kept in hundredths (accuracy 95.5 is 9550), which   *)
(* is exact for the two-decimal values the scoring module produces.        *)
(***************************************************************************)
EXTENDS Integers, Sequences, FiniteSets, TLC

Users == {"u1", "u2", "u3"}

Procs == {"p1", "p2"}

NumRounds == 3

Rounds == 1..NumRounds

\* bound: Results recorded for one round (submissions stop there)
MaxResults == 3

\* the reference paragraph of a round and what a contestant may send
Paragraph == <<"a", "b", "c", "d">>

TypedTexts == { <<"a", "b", "c", "d">>, <<"a", "b", "x", "x">> }

Times == {60}

\* roomConfig document written by createRoom: rounds.r1 only
ConfigRounds == {1}

QualifyCounts == {1, 2}

VARIABLES room, participants, results, now, config, proc

vars == <<room, participants, results, now, config, proc>>

----------------------------------------------------------------------------
(* Small helpers *)

Min(a, b) == IF a < b THEN a ELSE b

Max(a, b) == IF a > b THEN a ELSE b

Abs(x) == IF x < 0 THEN -x ELSE x

\* Math.round(num / den * 100) for num >= 0, den > 0, as an integer count of hundredths
RoundHundredths(num, den) == (2 * 100 * num + den) \div (2 * den)

----------------------------------------------------------------------------
(* Room states *)

RoundState(r) == "round" \o ToString(r)

ResultState(r) == "round" \o ToString(r) \o "_result"

LeaderboardState(r) == "round" \o ToString(r) \o "_leaderboard"

WaitingState(r) == "round" \o ToString(r) \o "_waiting"

\* the documented order of the state machine
StateOrder ==
  <<"waiting",
    "round1", "round1_result", "round1_leaderboard",
    "round2_waiting", "round2", "round2_result", "round2_leaderboard",
    "round3_waiting", "round3", "round3_result", "round3_leaderboard",
    "completed">>

StateIndex(s) == CHOOSE i \in 1..Len(StateOrder) : StateOrder[i] = s

----------------------------------------------------------------------------
(* Scoring: calculateScore of scoring.js, character by character *)

IsSpace(c) == c = " "

RECURSIVE TrimLeft(_)
TrimLeft(s) == IF s # <<>> /\ IsSpace(Head(s)) THEN TrimLeft(Tail(s)) ELSE s

RECURSIVE TrimRight(_)
TrimRight(s) ==
  IF s # <<>> /\ IsSpace(s[Len(s)]) THEN TrimRight(SubSeq(s, 1, Len(s) - 1)) ELSE s

Trim(s) == TrimRight(TrimLeft(s))

ZeroScore == [accuracy |-> 0, wpm |-> 0, finalScore |-> 0, correctChars |-> 0, totalChars |-> 0]

\* variant: accuracy taken from the characters typed, not from the correct ones
calculateScore_TypedOverExpected(originalText, typedText, timeInSeconds) ==
  LET t        == IF timeInSeconds <= 0 THEN 1 ELSE timeInSeconds
      original == Trim(originalText)
      typed    == typedText
      minLength == Min(Len(original), Len(typed))
      correctChars == Cardinality({i \in 1..minLength : original[i] = typed[i]})
      mismatched   == minLength - correctChars
      extra        == IF Len(typed) > Len(original) THEN Len(typed) - Len(original) ELSE 0
      missing      == IF Len(original) > Len(typed) THEN Len(original) - Len(typed) ELSE 0
      incorrectChars == mismatched + extra + missing
      \* netWpm = max(0, (correct - incorrect) / 5) / (t / 60)
      netNum == Max(0, correctChars - incorrectChars) * 12
      accuracy == RoundHundredths(Len(typed) * 100, Len(original))
      netWpm   == Max(0, RoundHundredths(netNum, t))
  IN IF originalText = <<>> \/ original = <<>>
       THEN ZeroScore
       ELSE [accuracy |-> accuracy, wpm |-> netWpm, finalScore |-> netWpm,
             correctChars |-> correctChars, totalChars |-> Len(typed)]

\* variant: a time that is not positive counts as one minute
calculateScore_DefaultMinute(originalText, typedText, timeInSeconds) ==
  LET t        == IF timeInSeconds <= 0 THEN 60 ELSE timeInSeconds
      original == Trim(originalText)
      typed    == typedText
      minLength == Min(Len(original), Len(typed))
      correctChars == Cardinality({i \in 1..minLength : original[i] = typed[i]})
      mismatched   == minLength - correctChars
      extra        == IF Len(typed) > Len(original) THEN Len(typed) - Len(original) ELSE 0
      missing      == IF Len(original) > Len(typed) THEN Len(original) - Len(typed) ELSE 0
      incorrectChars == mismatched + extra + missing
      \* netWpm = max(0, (correct - incorrect) / 5) / (t / 60)
      netNum == Max(0, correctChars - incorrectChars) * 12
      accuracy == Max(0, Min(10000, RoundHundredths(correctChars * 100, Len(original))))
      netWpm   == Max(0, RoundHundredths(netNum, t))
  IN IF originalText = <<>> \/ original = <<>>
       THEN ZeroScore
       ELSE [accuracy |-> accuracy, wpm |-> netWpm, finalScore |-> netWpm,
             correctChars |-> correctChars, totalChars |-> Len(typed)]

calculateScore(originalText, typedText, timeInSeconds) ==
  LET t        == IF timeInSeconds <= 0 THEN 1 ELSE timeInSeconds
      original == Trim(originalText)
      typed    == typedText
      minLength == Min(Len(original), Len(typed))
      correctChars == Cardinality({i \in 1..minLength : original[i] = typed[i]})
      mismatched   == minLength - correctChars
      extra        == IF Len(typed) > Len(original) THEN Len(typed) - Len(original) ELSE 0
      missing      == IF Len(original) > Len(typed) THEN Len(original) - Len(typed) ELSE 0
      incorrectChars == mismatched + extra + missing
      \* netWpm = max(0, (correct - incorrect) / 5) / (t / 60)
      netNum == Max(0, correctChars - incorrectChars) * 12
      accuracy == Max(0, Min(10000, RoundHundredths(correctChars * 100, Len(original))))
      netWpm   == Max(0, RoundHundredths(netNum, t))
  IN IF originalText = <<>> \/ original = <<>>
       THEN ZeroScore
       ELSE [accuracy |-> accuracy, wpm |-> netWpm, finalScore |-> netWpm,
             correctChars |-> correctChars, totalChars |-> Len(typed)]

----------------------------------------------------------------------------
(* Ranking: the comparator and Array.prototype.sort *)

Epsilon == 1

\* variant: accuracy and wpm are compared exactly
compareWithin_Exact(a, b, eps) ==
  IF a.accuracy # b.accuracy THEN b.accuracy - a.accuracy
  ELSE IF a.wpm # b.wpm THEN b.wpm - a.wpm
  ELSE a.submittedAt - b.submittedAt

\* the comparator, for metrics in any unit in which 0.01 is eps
\* negative: a ranks before b; positive: b ranks before a; 0: tie
compareWithin(a, b, eps) ==
  IF Abs(a.accuracy - b.accuracy) > eps THEN b.accuracy - a.accuracy
  ELSE IF Abs(a.wpm - b.wpm) > eps THEN b.wpm - a.wpm
  ELSE a.submittedAt - b.submittedAt

\* the comparator on stored Results, whose metrics are hundredths
compareResults(a, b) == compareWithin(a, b, Epsilon)

\* stable insertion of x into an already sorted sequence
RECURSIVE InsertSorted(_, _)
InsertSorted(sorted, x) ==
  IF sorted = <<>> THEN <<x>>
  ELSE LET last == sorted[Len(sorted)]
       IN IF compareResults(last, x) <= 0
            THEN Append(sorted, x)
            ELSE Append(InsertSorted(SubSeq(sorted, 1, Len(sorted) - 1), x), last)

RECURSIVE SortResults(_)
SortResults(s) ==
  IF s = <<>> THEN <<>>
  ELSE InsertSorted(SortResults(SubSeq(s, 1, Len(s) - 1)), s[Len(s)])

\* results.slice(0, n).map(r => r.userId), used through includes()
TopUserIds(sorted, n) == {sorted[i].userId : i \in 1..Min(n, Len(sorted))}

----------------------------------------------------------------------------
(* Documents *)

\* the room the model follows, and a second room that stays open for entry
ThisRoom == "A"

OtherRoom == "B"

\* no room has been created yet
NoRoom == [status |-> "absent", currentRound |-> 0, roundStatus |-> "absent",
           roundStartedAt |-> 0, roundEndedAt |-> 0]

\* a user without a participant document
NoDoc == [roomId |-> "none", status |-> "absent", currentRound |-> 0, isEliminated |-> FALSE,
          eliminatedInRound |-> 0]

\* the document joinRoom writes with setDoc (complete overwrite)
FreshParticipant == [roomId |-> ThisRoom, status |-> "waiting", currentRound |-> 0, isEliminated |-> FALSE,
                     eliminatedInRound |-> 0]

\* where('roomId', '==', roomId) on the participants collection
RoomParticipants(parts) == {u \in Users : parts[u].roomId = ThisRoom}

\* where('roomId', '==', roomId), where('round', '==', r) on the results collection, in store order
RoundResults(res, r) == SelectSeq(res, LAMBDA x : x.round = r)

\* where('userId', '==', u), where('roomId', '==', roomId), where('round', '==', r)
existingQuery(res, u, r) == SelectSeq(res, LAMBDA x : x.userId = u /\ x.round = r)

UserIds(res) == {res[i].userId : i \in 1..Len(res)}

----------------------------------------------------------------------------
(* Client invocations: the position of each running call and its locals *)

NoRet == [success |-> FALSE, flag |-> FALSE, wrote |-> FALSE, n |-> 0, score |-> ZeroScore]

Idle ==
  [pc |-> "idle", op |-> "none", r |-> 0, k |-> 0, u |-> "none",
   typed |-> <<>>, time |-> 0, snap |-> {}, qual |-> {}, sub |-> {}, docs |-> {}, n |-> 0,
   seen |-> "none", code |-> <<>>, args |-> <<>>, ret |-> NoRet,
   map |-> [u \in Users |-> NoDoc], board |-> <<>>, by |-> "none",
   lastRoomData |-> NoRoom, lastParticipantData |-> NoDoc,
   shown |-> [callback |-> "none", screen |-> "none", roundNumber |-> 0, canProceed |-> FALSE]]

\* a call starts from a settled client; the previous return value is dropped
Call(p, op, r) == [Idle EXCEPT !.op = op, !.r = r]

\* a settled client keeps what the call returned and the arguments it was called with;
\* every other local is gone
Return(c, ret) ==
  [Idle EXCEPT !.op = c.op, !.r = c.r, !.k = c.k, !.u = c.u, !.typed = c.typed,
               !.time = c.time, !.code = c.code, !.args = c.args, !.ret = ret]

Ok(flag, wrote, n) == [NoRet EXCEPT !.success = TRUE, !.flag = flag, !.wrote = wrote, !.n = n]

Settled(p, op) == proc[p].pc = "idle" /\ proc[p].op = op

Init ==
  /\ room = [status |-> "waiting", currentRound |-> 0, roundStatus |-> "waiting",
             roundStartedAt |-> 0, roundEndedAt |-> 0]
  /\ participants = [u \in Users |-> NoDoc]
  /\ results = <<>>
  /\ now = 1
  /\ config \in [ConfigRounds -> QualifyCounts]
  /\ proc = [p \in Procs |-> Idle]

----------------------------------------------------------------------------
(* joinRoom (room.js) *)

JoinRoomLookup(p, u) ==
  /\ proc[p].pc = "idle"
  /\ LET c == [Call(p, "joinRoom", 0) EXCEPT !.u = u]
         currentRound == room.currentRound
         status == room.status
     IN IF room.roundStatus = "completed" \/ room.status = "completed"
          THEN proc' = [proc EXCEPT ![p] = Return(c, NoRet)]
          ELSE IF currentRound >= 1 \/ status # "waiting"
            THEN \* entry is locked: only a participant of this room gets back in
                 proc' = [proc EXCEPT ![p] =
                            Return(c, IF participants[u].roomId = ThisRoom
                                        THEN Ok(TRUE, FALSE, 0) ELSE NoRet)]
            ELSE proc' = [proc EXCEPT ![p] = [c EXCEPT !.pc = "join_write"]]
  /\ UNCHANGED <<room, participants, results, now, config>>

JoinRoomWrite(p) ==
  /\ proc[p].pc = "join_write"
  /\ participants' = [participants EXCEPT ![proc[p].u] = FreshParticipant]
  /\ proc' = [proc EXCEPT ![p] = Return(@, Ok(FALSE, TRUE, 0))]
  /\ UNCHANGED <<room, results, now, config>>

----------------------------------------------------------------------------
(* startRound (admin.js) *)

validTransitions ==
  [s \in {"waiting", "round1_leaderboard", "round2_waiting", "round2_leaderboard", "round3_waiting"} |->
     CASE s = "waiting" -> "round1"
       [] s = "round1_leaderboard" -> "round2"
       [] s = "round2_waiting" -> "round2"
       [] s = "round2_leaderboard" -> "round3"
       [] s = "round3_waiting" -> "round3"]

canTransition(currentStatus, roundNumber) ==
  \/ (currentStatus \in DOMAIN validTransitions /\ validTransitions[currentStatus] = RoundState(roundNumber))
  \/ currentStatus = WaitingState(roundNumber)

startRoundRejects(currentStatus, roundNumber) ==
  ~canTransition(currentStatus, roundNumber) /\ roundNumber > 1

StartRoundCheck(p, r) ==
  /\ proc[p].pc = "idle"
  /\ LET c == [Call(p, "startRound", r) EXCEPT !.seen = room.status]
     IN IF startRoundRejects(room.status, r)
          THEN proc' = [proc EXCEPT ![p] = Return(c, NoRet)]
          ELSE proc' = [proc EXCEPT ![p] = [c EXCEPT !.pc = "sr_room"]]
  /\ UNCHANGED <<room, participants, results, now, config>>

StartRoundUpdateRoom(p) ==
  /\ proc[p].pc = "sr_room"
  /\ room' = [room EXCEPT !.status = RoundState(proc[p].r),
                          !.currentRound = proc[p].r,
                          !.roundStatus = "active",
                          !.roundStartedAt = now]
  /\ proc' = [proc EXCEPT ![p].pc = "sr_read"]
  /\ UNCHANGED <<participants, results, now, config>>

\* variant: the batch takes every participant of the room, eliminated or not
StartRoundReadParticipants_All(p) ==
  /\ proc[p].pc = "sr_read"
  /\ proc' = [proc EXCEPT ![p].pc = "sr_commit",
                          ![p].snap = RoomParticipants(participants)]
  /\ UNCHANGED <<room, participants, results, now, config>>

StartRoundReadParticipants(p) ==
  /\ proc[p].pc = "sr_read"
  /\ proc' = [proc EXCEPT ![p].pc = "sr_commit",
                          ![p].snap = {u \in RoomParticipants(participants) :
                                         participants[u].status # "eliminated"
                                         /\ ~participants[u].isEliminated}]
  /\ UNCHANGED <<room, participants, results, now, config>>

StartRoundCommit(p) ==
  /\ proc[p].pc = "sr_commit"
  /\ participants' = [u \in Users |->
                        IF u \in proc[p].snap
                          THEN [participants[u] EXCEPT !.status = "active", !.currentRound = proc[p].r]
                          ELSE participants[u]]
  /\ proc' = [proc EXCEPT ![p] = Return(@, Ok(FALSE, TRUE, 0))]
  /\ UNCHANGED <<room, results, now, config>>

\* the store rejects a request of startRound: updateDoc, getDocs or batch.commit
\* throws, nothing is written by that request, and the catch block returns the error
StartRoundStoreFails(p) ==
  /\ proc[p].pc \in {"sr_room", "sr_read", "sr_commit"}
  /\ proc' = [proc EXCEPT ![p] = [Return(@, NoRet) EXCEPT !.seen = proc[p].seen]]
  /\ UNCHANGED <<room, participants, results, now, config>>

----------------------------------------------------------------------------
(* submitTypingResult (admin.js) *)

\* calls that have passed the duplicate check and not yet written
PendingAdds == Cardinality({q \in Procs : proc[q].pc = "sub_add"})

\* variant: a repeated submission is answered with the score of the text it carries
SubmitCheck_Rescore(p, u, r, typed, time) ==
  /\ proc[p].pc = "idle"
  /\ Len(RoundResults(results, r)) + PendingAdds < MaxResults
  /\ LET c == [Call(p, "submit", r) EXCEPT !.u = u, !.typed = typed, !.time = time]
         existing == existingQuery(results, u, r)
     IN IF time = 0 \/ time <= 0 \/ time > 3600
          THEN proc' = [proc EXCEPT ![p] = Return(c, NoRet)]
          ELSE IF existing # <<>>
            THEN proc' = [proc EXCEPT ![p] =
                            Return(c, [Ok(TRUE, FALSE, 0) EXCEPT
                                         !.score = calculateScore(Paragraph, typed, time)])]
            ELSE proc' = [proc EXCEPT ![p] = [c EXCEPT !.pc = "sub_add"]]
  /\ UNCHANGED <<room, participants, results, now, config>>

SubmitCheck(p, u, r, typed, time) ==
  /\ proc[p].pc = "idle"
  /\ Len(RoundResults(results, r)) + PendingAdds < MaxResults
  /\ LET c == [Call(p, "submit", r) EXCEPT !.u = u, !.typed = typed, !.time = time]
         existing == existingQuery(results, u, r)
     IN IF time = 0 \/ time <= 0 \/ time > 3600
          THEN proc' = [proc EXCEPT ![p] = Return(c, NoRet)]
          ELSE IF existing # <<>>
            THEN proc' = [proc EXCEPT ![p] =
                            Return(c, [Ok(TRUE, FALSE, 0) EXCEPT
                                         !.score = [ZeroScore EXCEPT
                                                      !.accuracy = existing[1].accuracy,
                                                      !.wpm = existing[1].wpm,
                                                      !.finalScore = existing[1].finalScore]])]
            ELSE proc' = [proc EXCEPT ![p] = [c EXCEPT !.pc = "sub_add"]]
  /\ UNCHANGED <<room, participants, results, now, config>>

SubmitAdd(p) ==
  /\ proc[p].pc = "sub_add"
  /\ LET score == calculateScore(Paragraph, proc[p].typed, proc[p].time)
         rec == [userId |-> proc[p].u, round |-> proc[p].r,
                 accuracy |-> score.accuracy, wpm |-> score.wpm, finalScore |-> score.finalScore,
                 submittedAt |-> now]
     IN /\ results' = Append(results, rec)
        /\ now' = now + 1
        /\ proc' = [proc EXCEPT ![p] = Return(@, [Ok(FALSE, TRUE, 0) EXCEPT !.score = score])]
  /\ UNCHANGED <<room, participants, config>>

----------------------------------------------------------------------------
(* calculateEliminations (roomState.js) *)

\* variant: the guard looks for participants settled in the following round
roundAlreadyProcessed_NextRound(parts, r) ==
  \E u \in RoomParticipants(parts) :
     parts[u].currentRound = r + 1 /\ parts[u].status \in {"qualified", "eliminated"}

roundAlreadyProcessed(parts, r) ==
  \E u \in RoomParticipants(parts) :
     parts[u].currentRound = r /\ parts[u].status \in {"qualified", "eliminated"}

activeParticipants(parts) ==
  {u \in RoomParticipants(parts) : ~parts[u].isEliminated /\ parts[u].status # "eliminated"}

\* the fields one batch.update of calculateEliminations writes
markQualified(doc, r) ==
  [doc EXCEPT !.status = "qualified", !.isEliminated = FALSE, !.currentRound = r]

markEliminated(doc, r) ==
  [doc EXCEPT !.status = "eliminated", !.isEliminated = TRUE, !.eliminatedInRound = r,
              !.currentRound = r]

\* variant: a participant another batch has already settled is left as it is
eliminationUpdate_OnlyActive(doc, hasResult, qualified, r) ==
  IF doc.status # "active" THEN doc
  ELSE IF ~hasResult THEN markEliminated(doc, r)
  ELSE IF qualified THEN markQualified(doc, r)
  ELSE markEliminated(doc, r)

\* the update batched for one participant of activeParticipants: no result this
\* round is a forfeit, the top k qualify, every other submitter is out
eliminationUpdate(doc, hasResult, qualified, r) ==
  IF ~hasResult THEN markEliminated(doc, r)
  ELSE IF qualified THEN markQualified(doc, r)
  ELSE markEliminated(doc, r)

CalcElimReadParticipants(p, r, k) ==
  /\ proc[p].pc = "idle"
  /\ LET c == [Call(p, "calculateEliminations", r) EXCEPT !.k = k]
     IN IF roundAlreadyProcessed(participants, r)
          THEN proc' = [proc EXCEPT ![p] = Return(c, Ok(TRUE, FALSE, 0))]
          ELSE proc' = [proc EXCEPT ![p] =
                          [c EXCEPT !.pc = "ce_results", !.snap = activeParticipants(participants)]]
  /\ UNCHANGED <<room, participants, results, now, config>>

\* variant: an empty ledger is ranked like any other
CalcElimReadResults_NoGuard(p) ==
  /\ proc[p].pc = "ce_results"
  /\ LET res == RoundResults(results, proc[p].r)
         sorted == SortResults(res)
     IN proc' = [proc EXCEPT ![p].pc = "ce_commit",
                             ![p].n = Len(res),
                             ![p].qual = TopUserIds(sorted, proc[p].k),
                             ![p].sub = UserIds(res)]
  /\ UNCHANGED <<room, participants, results, now, config>>

CalcElimReadResults(p) ==
  /\ proc[p].pc = "ce_results"
  /\ LET res == RoundResults(results, proc[p].r)
         sorted == SortResults(res)
     IN IF Len(res) = 0
          THEN proc' = [proc EXCEPT ![p] = Return(@, NoRet)]
          ELSE proc' = [proc EXCEPT ![p].pc = "ce_commit",
                                    ![p].n = Len(res),
                                    ![p].qual = TopUserIds(sorted, proc[p].k),
                                    ![p].sub = UserIds(res)]
  /\ UNCHANGED <<room, participants, results, now, config>>

\* variant: the batch leaves alone whoever another batch has settled in the meantime
CalcElimCommit_KeepSettled(p) ==
  /\ proc[p].pc = "ce_commit"
  /\ participants' = [u \in Users |->
        IF u \notin proc[p].snap \/ participants[u].status \in {"qualified", "eliminated"}
          THEN participants[u]
        ELSE eliminationUpdate(participants[u], u \in proc[p].sub, u \in proc[p].qual, proc[p].r)]
  /\ proc' = [proc EXCEPT ![p] = Return(@, Ok(FALSE, TRUE, proc[p].n))]
  /\ UNCHANGED <<room, results, now, config>>

CalcElimCommit(p) ==
  /\ proc[p].pc = "ce_commit"
  /\ participants' = [u \in Users |->
        IF u \notin proc[p].snap THEN participants[u]
        ELSE eliminationUpdate(participants[u], u \in proc[p].sub, u \in proc[p].qual, proc[p].r)]
  /\ proc' = [proc EXCEPT ![p] = Return(@, Ok(FALSE, TRUE, proc[p].n))]
  /\ UNCHANGED <<room, results, now, config>>

\* variant: the rejected batch has already written its qualified participants
CalcElimCommitFails_Partial(p) ==
  /\ proc[p].pc = "ce_commit"
  /\ participants' = [u \in Users |->
        IF u \in proc[p].snap /\ u \in proc[p].qual
          THEN markQualified(participants[u], proc[p].r) ELSE participants[u]]
  /\ proc' = [proc EXCEPT ![p] =
                [Return(@, [NoRet EXCEPT !.n = proc[p].n]) EXCEPT !.qual = proc[p].qual]]
  /\ UNCHANGED <<room, results, now, config>>

\* batch.commit() rejects: a batch is applied whole or not at all, the catch
\* block returns the error; the ranking the attempt had computed was logged
CalcElimCommitFails(p) ==
  /\ proc[p].pc = "ce_commit"
  /\ proc' = [proc EXCEPT ![p] =
                [Return(@, [NoRet EXCEPT !.n = proc[p].n]) EXCEPT !.qual = proc[p].qual]]
  /\ UNCHANGED <<room, participants, results, now, config>>

----------------------------------------------------------------------------
(* transitionToResult / transitionToLeaderboard / transitionToNextWaiting (roomState.js) *)

\* variant: the game is over after the round before the last
nextWaitingState_EndsEarly(roundNumber) ==
  IF roundNumber >= NumRounds - 1 THEN "completed" ELSE WaitingState(roundNumber + 1)

nextWaitingState(roundNumber) ==
  IF roundNumber >= NumRounds THEN "completed" ELSE WaitingState(roundNumber + 1)

transitionToResult(r) ==
  /\ room' = [room EXCEPT !.status = ResultState(r), !.roundEndedAt = now]
  /\ UNCHANGED <<participants, results, now, config, proc>>

transitionToLeaderboard(r) ==
  /\ room' = [room EXCEPT !.status = LeaderboardState(r)]
  /\ UNCHANGED <<participants, results, now, config, proc>>

transitionToNextWaiting(r) ==
  /\ room' = [room EXCEPT !.status = nextWaitingState(r)]
  /\ UNCHANGED <<participants, results, now, config, proc>>

----------------------------------------------------------------------------
(* determineUserScreen and listenToRoomState (roomState.js) *)

\* the room states that start with round<r>
RoundStates(r) == {RoundState(r), WaitingState(r), ResultState(r), LeaderboardState(r)}

getRoundFromState(state) ==
  IF state \in RoundStates(1) THEN 1
  ELSE IF state \in RoundStates(2) THEN 2
  ELSE IF state \in RoundStates(3) THEN 3
  ELSE 0

getScreenFromState(state) ==
  IF state = "waiting" \/ state \in {WaitingState(r) : r \in Rounds} THEN "waiting"
  ELSE IF state \in {RoundState(r) : r \in Rounds} THEN "typing"
  ELSE IF state \in {ResultState(r) : r \in Rounds} THEN "result"
  ELSE IF state \in {LeaderboardState(r) : r \in Rounds} THEN "leaderboard"
  ELSE IF state = "completed" THEN "completed"
  ELSE "waiting"

\* roomData?.status || 'waiting'
statusOrWaiting(roomData) == IF roomData.status = "absent" THEN "waiting" ELSE roomData.status

\* eliminatedInRound || currentRound || 1
eliminatedRoundNumber(participantData) ==
  IF participantData.eliminatedInRound # 0 THEN participantData.eliminatedInRound
  ELSE IF participantData.currentRound # 0 THEN participantData.currentRound
  ELSE 1

ScreenInfo(screen, roundNumber, canProceed) ==
  [screen |-> screen, roundNumber |-> roundNumber, canProceed |-> canProceed]

\* variant: any participant who has reached the round before may wait for the next
determineUserScreen_AnyStatus(roomData, participantData) ==
  LET roomStatus == statusOrWaiting(roomData)
      roundNumber == getRoundFromState(roomStatus)
      screenType == getScreenFromState(roomStatus)
  IN IF participantData.isEliminated \/ participantData.status = "eliminated"
       THEN ScreenInfo("eliminated", eliminatedRoundNumber(participantData), FALSE)
     ELSE IF /\ screenType = "waiting" /\ roundNumber > 1
             /\ participantData.currentRound < roundNumber - 1
       THEN ScreenInfo("eliminated", participantData.currentRound, FALSE)
     ELSE ScreenInfo(screenType, roundNumber, TRUE)

\* redirectTo is 'eliminated.html' exactly when canProceed is false
determineUserScreen(roomData, participantData) ==
  LET roomStatus == statusOrWaiting(roomData)
      roundNumber == getRoundFromState(roomStatus)
      screenType == getScreenFromState(roomStatus)
  IN IF participantData.isEliminated \/ participantData.status = "eliminated"
       THEN ScreenInfo("eliminated", eliminatedRoundNumber(participantData), FALSE)
     ELSE IF /\ screenType = "waiting" /\ roundNumber > 1
             /\ (participantData.status # "qualified"
                   \/ participantData.currentRound < roundNumber - 1)
       THEN ScreenInfo("eliminated", participantData.currentRound, FALSE)
     ELSE ScreenInfo(screenType, roundNumber, TRUE)

\* a client calls determineUserScreen on a room document and a participant document
ScreenCall(p, roomData, participantData) ==
  /\ proc[p].pc = "idle"
  /\ LET info == determineUserScreen(roomData, participantData)
     IN proc' = [proc EXCEPT ![p] =
                   [Return(Call(p, "determineUserScreen", 0), Ok(FALSE, FALSE, 0)) EXCEPT
                      !.lastRoomData = roomData,
                      !.lastParticipantData = participantData,
                      !.shown = [callback |-> "none", screen |-> info.screen,
                                 roundNumber |-> info.roundNumber,
                                 canProceed |-> info.canProceed]]]
  /\ UNCHANGED <<room, participants, results, now, config>>

\* what processState hands to a callback: which callback, and the screen information
Shown(callback, info) ==
  [callback |-> callback, screen |-> info.screen, roundNumber |-> info.roundNumber,
   canProceed |-> info.canProceed]

\* variant: every state goes to onStateChange
processState_AlwaysState(c) ==
  IF c.lastRoomData = NoRoom THEN c
  ELSE [c EXCEPT !.shown =
          Shown("onStateChange", determineUserScreen(c.lastRoomData, c.lastParticipantData))]

\* processState of a listener with locals c: nothing without a room snapshot; the
\* eliminated and those determineUserScreen redirects go to onEliminated
processState(c) ==
  IF c.lastRoomData = NoRoom THEN c
  ELSE LET info == determineUserScreen(c.lastRoomData, c.lastParticipantData)
       IN IF c.lastParticipantData.isEliminated \/ c.lastParticipantData.status = "eliminated"
            THEN [c EXCEPT !.shown = Shown("onEliminated", info)]
          ELSE IF ~info.canProceed
            THEN [c EXCEPT !.shown = Shown("onEliminated", info)]
          ELSE [c EXCEPT !.shown = Shown("onStateChange", info)]

\* listenToRoomState registers its two listeners; no snapshot has come yet
RoomStateSubscribe(p, u) ==
  /\ proc[p].pc = "idle"
  /\ proc' = [proc EXCEPT ![p] = [Call(p, "listenToRoomState", 0) EXCEPT !.pc = "watching", !.u = u]]
  /\ UNCHANGED <<room, participants, results, now, config>>

\* the room listener receives the room document as it is now
RoomSnapshot(p) ==
  /\ proc[p].pc = "watching"
  /\ room # NoRoom
  /\ proc[p].lastRoomData # room
  /\ proc' = [proc EXCEPT ![p] = processState([proc[p] EXCEPT !.lastRoomData = room])]
  /\ UNCHANGED <<room, participants, results, now, config>>

\* the participant listener receives the participant document as it is now
ParticipantSnapshot(p) ==
  /\ proc[p].pc = "watching"
  /\ participants[proc[p].u] # NoDoc
  /\ proc[p].lastParticipantData # participants[proc[p].u]
  /\ proc' = [proc EXCEPT ![p] =
                processState([proc[p] EXCEPT !.lastParticipantData = participants[proc[p].u]])]
  /\ UNCHANGED <<room, participants, results, now, config>>

\* the function listenToRoomState returned is called
RoomStateUnsubscribe(p) ==
  /\ proc[p].pc = "watching"
  /\ proc' = [proc EXCEPT ![p] = Return(@, Ok(FALSE, FALSE, 0))]
  /\ UNCHANGED <<room, participants, results, now, config>>

----------------------------------------------------------------------------
(* endRound and autoEndRound (admin.js) *)

Orderings(res) == {[i \in 1..Len(res) |-> res[f[i]]] : f \in Permutations(1..Len(res))}

\* orderBy('finalScore', 'desc'): equal scores come in the order of their
\* auto-generated document ids, which is any order
indexedQuery(res) ==
  {s \in Orderings(res) : \A i, j \in 1..Len(s) : i < j => s[i].finalScore >= s[j].finalScore}

\* the failed-precondition fallback: plain query, then the in-memory comparator sort
fallbackQuery(res) == SortResults(res)

\* the two fields an endRound / autoEndRound batch.update writes
setStatus(doc, status, r) == [doc EXCEPT !.status = status, !.currentRound = r]

roomAfterEnd(rm, r) ==
  IF r = 3 THEN [rm EXCEPT !.roundStatus = "completed", !.currentRound = 3]
           ELSE [rm EXCEPT !.roundStatus = "waiting", !.currentRound = r]

EndRoundReadResults(p, r, indexed) ==
  /\ proc[p].pc = "idle"
  /\ LET c == Call(p, "endRound", r)
         res == RoundResults(results, r)
     IN IF r \notin DOMAIN config \/ Len(res) = 0
          THEN proc' = [proc EXCEPT ![p] = Return(c, NoRet)]
          ELSE \E ranked \in (IF indexed THEN indexedQuery(res) ELSE {fallbackQuery(res)}) :
                 proc' = [proc EXCEPT ![p] =
                            [c EXCEPT !.pc = "er_read", !.n = Len(res),
                                      !.qual = TopUserIds(ranked, config[r])]]
  /\ UNCHANGED <<room, participants, results, now, config>>

EndRoundReadParticipants(p) ==
  /\ proc[p].pc = "er_read"
  /\ IF RoomParticipants(participants) = {}
       THEN proc' = [proc EXCEPT ![p] = Return(@, NoRet)]
       ELSE proc' = [proc EXCEPT ![p].pc = "er_commit",
                                 ![p].snap = RoomParticipants(participants)]
  /\ UNCHANGED <<room, participants, results, now, config>>

EndRoundCommit(p) ==
  /\ proc[p].pc = "er_commit"
  /\ participants' = [u \in Users |->
        IF u \notin proc[p].snap THEN participants[u]
        ELSE IF u \in proc[p].qual THEN setStatus(participants[u], "qualified", proc[p].r)
        ELSE setStatus(participants[u], "eliminated", proc[p].r)]
  /\ proc' = [proc EXCEPT ![p].pc = "er_room"]
  /\ UNCHANGED <<room, results, now, config>>

EndRoundUpdateRoom(p) ==
  /\ proc[p].pc = "er_room"
  /\ room' = roomAfterEnd(room, proc[p].r)
  /\ proc' = [proc EXCEPT ![p] = Return(@, Ok(FALSE, TRUE, proc[p].n))]
  /\ UNCHANGED <<participants, results, now, config>>

AutoEndReadParticipants(p, r) ==
  /\ proc[p].pc = "idle"
  /\ LET c == Call(p, "autoEndRound", r)
     IN IF RoomParticipants(participants) = {}
          THEN proc' = [proc EXCEPT ![p] = Return(c, NoRet)]
          ELSE IF roundAlreadyProcessed(participants, r)
            THEN proc' = [proc EXCEPT ![p] = Return(c, Ok(TRUE, FALSE, 0))]
            ELSE proc' = [proc EXCEPT ![p] =
                            [c EXCEPT !.pc = "ae_results", !.snap = RoomParticipants(participants)]]
  /\ UNCHANGED <<room, participants, results, now, config>>

AutoEndReadResults(p, indexed) ==
  /\ proc[p].pc = "ae_results"
  /\ LET r == proc[p].r
         res == RoundResults(results, r)
     IN IF r \notin DOMAIN config \/ Len(res) = 0
          THEN proc' = [proc EXCEPT ![p] = Return(@, NoRet)]
          ELSE \E ranked \in (IF indexed THEN indexedQuery(res) ELSE {fallbackQuery(res)}) :
                 proc' = [proc EXCEPT ![p].pc = "ae_commit",
                                      ![p].n = Len(res),
                                      ![p].sub = UserIds(res),
                                      ![p].qual = TopUserIds(ranked, config[r])]
  /\ UNCHANGED <<room, participants, results, now, config>>

AutoEndCommit(p) ==
  /\ proc[p].pc = "ae_commit"
  /\ participants' = [u \in Users |->
        IF u \notin proc[p].snap \/ u \notin proc[p].sub THEN participants[u]
        ELSE IF u \in proc[p].qual THEN setStatus(participants[u], "qualified", proc[p].r)
        ELSE setStatus(participants[u], "eliminated", proc[p].r)]
  /\ proc' = [proc EXCEPT ![p].pc = "ae_room"]
  /\ UNCHANGED <<room, results, now, config>>

AutoEndUpdateRoom(p) ==
  /\ proc[p].pc = "ae_room"
  /\ room' = [roomAfterEnd(room, proc[p].r) EXCEPT !.roundEndedAt = now]
  /\ proc' = [proc EXCEPT ![p] = Return(@, Ok(FALSE, TRUE, proc[p].n))]
  /\ UNCHANGED <<participants, results, now, config>>

\* the store rejects batch.commit or the updateDoc on the room: that request writes
\* nothing and the catch block returns the error
AutoEndStoreFails(p) ==
  /\ proc[p].pc \in {"ae_commit", "ae_room"}
  /\ proc' = [proc EXCEPT ![p] = Return(@, NoRet)]
  /\ UNCHANGED <<room, participants, results, now, config>>

----------------------------------------------------------------------------
(* The single-round endRound and calculateResults (roomState.js, earlier revision) *)

\* the comparator of calculateResults: net wpm, then accuracy, then submission time
compareNetWpm(a, b) ==
  IF Abs(a.wpm - b.wpm) > Epsilon THEN b.wpm - a.wpm
  ELSE IF Abs(a.accuracy - b.accuracy) > Epsilon THEN b.accuracy - a.accuracy
  ELSE a.submittedAt - b.submittedAt

RECURSIVE NetWpmInsert(_, _)
NetWpmInsert(sorted, x) ==
  IF sorted = <<>> THEN <<x>>
  ELSE LET last == sorted[Len(sorted)]
       IN IF compareNetWpm(last, x) <= 0
            THEN Append(sorted, x)
            ELSE Append(NetWpmInsert(SubSeq(sorted, 1, Len(sorted) - 1), x), last)

RECURSIVE NetWpmSort(_)
NetWpmSort(s) ==
  IF s = <<>> THEN <<>>
  ELSE NetWpmInsert(NetWpmSort(SubSeq(s, 1, Len(s) - 1)), s[Len(s)])

\* userResultsMap[userId].isQualified: a later Result of the same user replaces an earlier one
isQualifiedByMap(sorted, u, qualifyCount) ==
  LET idx == {i \in 1..Len(sorted) : sorted[i].userId = u}
  IN idx # {} /\ (CHOOSE i \in idx : \A j \in idx : j <= i) <= qualifyCount

\* rounds?.r1?.qualifyCount || 3
singleQualifyCount(cfg) == IF 1 \in DOMAIN cfg /\ cfg[1] # 0 THEN cfg[1] ELSE 3

\* endRound reads the room configuration
SingleEndRoundReadConfig(p, r) ==
  /\ proc[p].pc = "idle"
  /\ proc' = [proc EXCEPT ![p] =
                [Call(p, "endRoundSingle", r) EXCEPT !.pc = "cr_results",
                                                     !.k = singleQualifyCount(config)]]
  /\ UNCHANGED <<room, participants, results, now, config>>

\* calculateResults reads the Results; without any it returns { success: false }
CalculateResultsReadResults(p) ==
  /\ proc[p].pc = "cr_results"
  /\ LET res == RoundResults(results, proc[p].r)
     IN IF Len(res) = 0
          THEN proc' = [proc EXCEPT ![p].pc = "se_room", ![p].n = 0]
          ELSE proc' = [proc EXCEPT ![p].pc = "cr_parts",
                                    ![p].n = Len(res),
                                    ![p].sub = UserIds(res),
                                    ![p].qual = {u \in UserIds(res) :
                                                   isQualifiedByMap(NetWpmSort(res), u, proc[p].k)}]
  /\ UNCHANGED <<room, participants, results, now, config>>

CalculateResultsReadParticipants(p) ==
  /\ proc[p].pc = "cr_parts"
  /\ proc' = [proc EXCEPT ![p].pc = "cr_commit", ![p].snap = RoomParticipants(participants)]
  /\ UNCHANGED <<room, participants, results, now, config>>

\* every participant of the room is written: qualified or eliminated by rank, eliminated
\* without a Result
CalculateResultsCommit(p) ==
  /\ proc[p].pc = "cr_commit"
  /\ participants' = [u \in Users |->
        IF u \notin proc[p].snap THEN participants[u]
        ELSE IF u \in proc[p].sub /\ u \in proc[p].qual
          THEN setStatus(participants[u], "qualified", proc[p].r)
        ELSE setStatus(participants[u], "eliminated", proc[p].r)]
  /\ proc' = [proc EXCEPT ![p].pc = "se_room"]
  /\ UNCHANGED <<room, results, now, config>>

\* endRound does not look at what calculateResults returned
SingleEndRoundUpdateRoom(p) ==
  /\ proc[p].pc = "se_room"
  /\ room' = [room EXCEPT !.status = "completed", !.roundStatus = "completed",
                          !.currentRound = 1, !.roundEndedAt = now]
  /\ proc' = [proc EXCEPT ![p] = Return(@, Ok(FALSE, TRUE, proc[p].n))]
  /\ UNCHANGED <<participants, results, now, config>>

----------------------------------------------------------------------------
(* The store's security rules (Firebase setup guide) and the two clean-up  *)
(* calls of admin.js that run into them                                    *)

\* a store whose rules let any signed-in user delete a Result
resultsAllowDelete_Open == TRUE

\* match /results/{resultId}: allow delete: if false
resultsAllowDelete == FALSE

\* match /participants/{userId}: allow delete: if false
participantsAllowDelete == FALSE

\* match /rooms/{roomId}: allow delete: if false
roomsAllowDelete == FALSE

\* a Result document is known by its reference; the creation stamp stands for it
DocRefs(res) == {res[i].submittedAt : i \in 1..Len(res)}

WithoutDocs(res, refs) == SelectSeq(res, LAMBDA x : x.submittedAt \notin refs)

ClearReadResults(p, r) ==
  /\ proc[p].pc = "idle"
  /\ LET c == Call(p, "clearRoundResults", r)
         res == RoundResults(results, r)
     IN IF Len(res) = 0
          THEN proc' = [proc EXCEPT ![p] = Return(c, Ok(FALSE, FALSE, 0))]
          ELSE proc' = [proc EXCEPT ![p] =
                          [c EXCEPT !.pc = "cl_commit", !.n = Len(res), !.docs = DocRefs(res)]]
  /\ UNCHANGED <<room, participants, results, now, config>>

\* batch.commit() of the deletes: applied if the rules allow it, else rejected whole
ClearCommit(p) ==
  /\ proc[p].pc = "cl_commit"
  /\ IF resultsAllowDelete
       THEN /\ results' = WithoutDocs(results, proc[p].docs)
            /\ proc' = [proc EXCEPT ![p] = Return(@, Ok(FALSE, TRUE, proc[p].n))]
       ELSE /\ results' = results
            /\ proc' = [proc EXCEPT ![p] = Return(@, NoRet)]
  /\ UNCHANGED <<room, participants, now, config>>

DeleteRoomReadResults(p) ==
  /\ proc[p].pc = "idle"
  /\ LET c == Call(p, "deleteRoom", 0)
     IN IF Len(results) = 0
          THEN proc' = [proc EXCEPT ![p] = [c EXCEPT !.pc = "dr_read"]]
          ELSE proc' = [proc EXCEPT ![p] =
                          [c EXCEPT !.pc = "dr_results", !.docs = DocRefs(results)]]
  /\ UNCHANGED <<room, participants, results, now, config>>

DeleteRoomCommitResults(p) ==
  /\ proc[p].pc = "dr_results"
  /\ IF resultsAllowDelete
       THEN /\ results' = WithoutDocs(results, proc[p].docs)
            /\ proc' = [proc EXCEPT ![p].pc = "dr_read"]
       ELSE /\ results' = results
            /\ proc' = [proc EXCEPT ![p] = Return(@, NoRet)]
  /\ UNCHANGED <<room, participants, now, config>>

DeleteRoomReadParticipants(p) ==
  /\ proc[p].pc = "dr_read"
  /\ IF RoomParticipants(participants) = {}
       THEN proc' = [proc EXCEPT ![p].pc = "dr_config"]
       ELSE proc' = [proc EXCEPT ![p].pc = "dr_parts",
                                 ![p].snap = RoomParticipants(participants)]
  /\ UNCHANGED <<room, participants, results, now, config>>

DeleteRoomCommitParticipants(p) ==
  /\ proc[p].pc = "dr_parts"
  /\ IF participantsAllowDelete
       THEN /\ participants' = [u \in Users |->
                                  IF u \in proc[p].snap THEN NoDoc ELSE participants[u]]
            /\ proc' = [proc EXCEPT ![p].pc = "dr_config"]
       ELSE /\ participants' = participants
            /\ proc' = [proc EXCEPT ![p] = Return(@, NoRet)]
  /\ UNCHANGED <<room, results, now, config>>

\* roomConfig allows every write: the config document goes
DeleteRoomConfig(p) ==
  /\ proc[p].pc = "dr_config"
  /\ config' = <<>>
  /\ proc' = [proc EXCEPT ![p].pc = "dr_room"]
  /\ UNCHANGED <<room, participants, results, now>>

DeleteRoomRoom(p) ==
  /\ proc[p].pc = "dr_room"
  /\ IF roomsAllowDelete
       THEN /\ room' = [room EXCEPT !.status = "deleted"]
            /\ proc' = [proc EXCEPT ![p] = Return(@, Ok(FALSE, TRUE, 0))]
       ELSE /\ room' = room
            /\ proc' = [proc EXCEPT ![p] = Return(@, NoRet)]
  /\ UNCHANGED <<participants, results, now, config>>

----------------------------------------------------------------------------
(* calculateScore called with arguments of any JavaScript type *)

JsString(s) == [type |-> "string", val |-> s]

\* null, undefined or any value that is not a string
JsNotString == [type |-> "other", val |-> <<>>]

JsNumber(n) == [type |-> "number", val |-> n]

JsNaN == [type |-> "NaN", val |-> 0]

JsInfinity == [type |-> "Infinity", val |-> 0]

\* the type checks at the head of calculateScore, then the computation
calculateScoreArgs(originalArg, typedArg, timeArg) ==
  IF originalArg.type # "string" \/ originalArg.val = <<>>
    THEN ZeroScore
    ELSE calculateScore(originalArg.val,
                        IF typedArg.type = "string" THEN typedArg.val ELSE <<>>,
                        IF timeArg.type # "number" THEN 1 ELSE timeArg.val)

ScoreCall(p, originalArg, typedArg, timeArg) ==
  /\ proc[p].pc = "idle"
  /\ proc' = [proc EXCEPT ![p] =
                Return([Call(p, "calculateScore", 0) EXCEPT !.args = <<originalArg, typedArg, timeArg>>],
                       [Ok(FALSE, FALSE, 0) EXCEPT
                          !.score = calculateScoreArgs(originalArg, typedArg, timeArg)])]
  /\ UNCHANGED <<room, participants, results, now, config>>

----------------------------------------------------------------------------
(* createRoom and the input checks of joinRoom (room.js) *)

\* the document createRoom adds to the rooms collection
NewRoom == [status |-> "waiting", currentRound |-> 0, roundStatus |-> "waiting",
            roundStartedAt |-> 0, roundEndedAt |-> 0]

\* the code generateRoomCode gave the room
RoomCode == <<"A", "B", "1", "2", "C", "D">>

CodeChars == {"A", "B", "C", "D", "1", "2"}

ToUpperCase(s) ==
  [i \in 1..Len(s) |->
     CASE s[i] = "a" -> "A" [] s[i] = "b" -> "B" [] s[i] = "c" -> "C" [] s[i] = "d" -> "D"
       [] OTHER -> s[i]]

\* roomCode.trim().toUpperCase()
normalizeCode(code) == ToUpperCase(Trim(code))

\* length 6 and /^[A-Z0-9]{6}$/
validCodeFormat(code) == Len(code) = 6 /\ \A i \in 1..Len(code) : code[i] \in CodeChars

\* parseInt of a time given in tenths of a second
parseIntTenths(t) == t \div 10

\* the checks on config.rounds.r1; time in tenths of a second
createRoomRejects(time, qualifyCount) ==
  \/ time = 0 \/ qualifyCount = 0
  \/ time <= 0 \/ time > 36000
  \/ qualifyCount < 1

CreateRoomValidate(p, time, qualifyCount) ==
  /\ proc[p].pc = "idle"
  /\ room = NoRoom
  /\ LET c == [Call(p, "createRoom", 0) EXCEPT !.time = time, !.k = qualifyCount]
     IN IF createRoomRejects(time, qualifyCount)
          THEN proc' = [proc EXCEPT ![p] = Return(c, NoRet)]
          ELSE proc' = [proc EXCEPT ![p] = [c EXCEPT !.pc = "cr_room"]]
  /\ UNCHANGED <<room, participants, results, now, config>>

CreateRoomAddRoom(p) ==
  /\ proc[p].pc = "cr_room"
  /\ room' = NewRoom
  /\ proc' = [proc EXCEPT ![p].pc = "cr_config"]
  /\ UNCHANGED <<participants, results, now, config>>

\* only rounds.r1 is written; of it the model keeps the qualify count
CreateRoomSetConfig(p) ==
  /\ proc[p].pc = "cr_config"
  /\ config' = [r \in ConfigRounds |-> proc[p].k]
  /\ proc' = [proc EXCEPT ![p] = Return(@, Ok(FALSE, TRUE, 0))]
  /\ UNCHANGED <<room, participants, results, now>>

\* joinRoom from its first line: the format check, the room query, then the lock
JoinRoomByCode(p, code, u) ==
  IF ~validCodeFormat(normalizeCode(code)) \/ room = NoRoom \/ normalizeCode(code) # RoomCode
    THEN /\ proc[p].pc = "idle"
         /\ proc' = [proc EXCEPT ![p] =
                       Return([Call(p, "joinRoom", 0) EXCEPT !.u = u, !.code = code], NoRet)]
         /\ UNCHANGED <<room, participants, results, now, config>>
    ELSE JoinRoomLookup(p, u)

----------------------------------------------------------------------------
(* joinRoom called with the code of the other room, which is open for entry *)

OtherRoomCode == <<"D", "C", "2", "1", "B", "A">>

\* the room found is in status waiting with currentRound 0: entry is not locked
JoinOtherRoomLookup(p, u) ==
  /\ proc[p].pc = "idle"
  /\ proc' = [proc EXCEPT ![p] =
                [Call(p, "joinRoom", 0) EXCEPT !.u = u, !.code = OtherRoomCode, !.pc = "join_other"]]
  /\ UNCHANGED <<room, participants, results, now, config>>

\* setDoc on participants/<userId>, whatever room the document belonged to
JoinOtherRoomWrite(p) ==
  /\ proc[p].pc = "join_other"
  /\ participants' = [participants EXCEPT
                        ![proc[p].u] = [FreshParticipant EXCEPT !.roomId = OtherRoom]]
  /\ proc' = [proc EXCEPT ![p] = Return(@, Ok(FALSE, TRUE, 0))]
  /\ UNCHANGED <<room, results, now, config>>

----------------------------------------------------------------------------
(* Spec: the lobby and the room state machine.  From the freshly created   *)
(* room a client joins users, starts rounds and drives the result /        *)
(* leaderboard / waiting transitions, one call after the other.            *)

Client == "p1"

Next ==
  \/ \E u \in Users : JoinRoomLookup(Client, u)
  \/ JoinRoomWrite(Client)
  \/ \E r \in Rounds : StartRoundCheck(Client, r)
  \/ StartRoundUpdateRoom(Client)
  \/ StartRoundReadParticipants(Client)
  \/ StartRoundCommit(Client)
  \/ \E r \in Rounds : transitionToResult(r)
  \/ \E r \in Rounds : transitionToLeaderboard(r)
  \/ \E r \in Rounds : transitionToNextWaiting(r)

Spec == Init /\ [][Next]_vars

----------------------------------------------------------------------------
(* SpecElim: round 1 is running with every user in it (the state Spec     *)
(* reaches after three joins and startRound(1)); two clients submit        *)
(* results and call calculateEliminations for it, interleaving at every    *)
(* await.  SpecElim2: the same calls while round 2 is running, after u1    *)
(* and u2 qualified from round 1 and u3 forfeited it.                      *)

ActiveIn(r) == [FreshParticipant EXCEPT !.status = "active", !.currentRound = r]

PerfectScore == calculateScore(Paragraph, Paragraph, 60)

Round1Result(u, t) ==
  [userId |-> u, round |-> 1, accuracy |-> PerfectScore.accuracy, wpm |-> PerfectScore.wpm,
   finalScore |-> PerfectScore.finalScore, submittedAt |-> t]

InitRound1 ==
  /\ room = [status |-> "round1", currentRound |-> 1, roundStatus |-> "active",
             roundStartedAt |-> 1, roundEndedAt |-> 0]
  /\ participants = [u \in Users |-> ActiveIn(1)]
  /\ results = <<>>
  /\ now = 1

InitRound2 ==
  /\ room = [status |-> "round2", currentRound |-> 2, roundStatus |-> "active",
             roundStartedAt |-> 3, roundEndedAt |-> 3]
  /\ participants = [u \in Users |->
                       IF u = "u3" THEN markEliminated(ActiveIn(1), 1) ELSE ActiveIn(2)]
  /\ results = <<Round1Result("u1", 1), Round1Result("u2", 2)>>
  /\ now = 3

\* neither call reads the round configuration: calculateEliminations takes its
\* qualify count as an argument
InitElim ==
  /\ InitRound1
  /\ config = [r \in ConfigRounds |-> CHOOSE k \in QualifyCounts : TRUE]
  /\ proc = [p \in Procs |-> Idle]

InitElim2 ==
  /\ InitRound2
  /\ config = [r \in ConfigRounds |-> CHOOSE k \in QualifyCounts : TRUE]
  /\ proc = [p \in Procs |-> Idle]

NextElim ==
  \/ \E p \in Procs, u \in RoomParticipants(participants), typed \in TypedTexts, time \in Times :
        SubmitCheck(p, u, room.currentRound, typed, time)
  \/ \E p \in Procs : SubmitAdd(p)
  \/ \E p \in Procs, k \in QualifyCounts : CalcElimReadParticipants(p, room.currentRound, k)
  \/ \E p \in Procs : CalcElimReadResults(p)
  \/ \E p \in Procs : CalcElimCommit(p)

SpecElim == InitElim /\ [][NextElim]_vars

SpecElim2 == InitElim2 /\ [][NextElim]_vars

----------------------------------------------------------------------------
(* SpecFail: round 1 is over for the contestants: the Results are in and   *)
(* no more arrive.  Two clients call calculateEliminations, and the store  *)
(* may reject a batch.                                                     *)

\* the Result submitTypingResult records for user u typing typed, as the t-th Result
RecordOf(u, r, typed, t) ==
  LET score == calculateScore(Paragraph, typed, 60)
  IN [userId |-> u, round |-> r, accuracy |-> score.accuracy, wpm |-> score.wpm,
      finalScore |-> score.finalScore, submittedAt |-> t]

\* one Result per submitter, at most MaxResults of them
FixedLedgers ==
  {[i \in 1..Len(s) |-> RecordOf(s[i][1], 1, s[i][2], i)] :
     s \in {t \in UNION {[1..n -> Users \X TypedTexts] : n \in 1..MaxResults} :
              \A i, j \in 1..Len(t) : t[i][1] = t[j][1] => i = j}}

InitFail ==
  /\ room = [status |-> "round1", currentRound |-> 1, roundStatus |-> "active",
             roundStartedAt |-> 1, roundEndedAt |-> 0]
  /\ participants = [u \in Users |-> ActiveIn(1)]
  /\ results \in FixedLedgers
  /\ now = Len(results) + 1
  /\ config = [r \in ConfigRounds |-> CHOOSE k \in QualifyCounts : TRUE]
  /\ proc = [p \in Procs |-> Idle]

NextFail ==
  \/ \E p \in Procs, k \in QualifyCounts : CalcElimReadParticipants(p, room.currentRound, k)
  \/ \E p \in Procs : CalcElimReadResults(p)
  \/ \E p \in Procs : CalcElimCommit(p)
  \/ \E p \in Procs : CalcElimCommitFails(p)

SpecFail == InitFail /\ [][NextFail]_vars

----------------------------------------------------------------------------
(* SpecEnd: round 1 is running with every user in it; clients submit       *)
(* results and end the round through any of the three implementations:     *)
(* calculateEliminations, endRound and autoEndRound, and may call          *)
(* startRound again.                                                       *)

InitEnd ==
  /\ InitRound1
  /\ config \in [ConfigRounds -> QualifyCounts]
  /\ proc = [p \in Procs |-> Idle]

NextEnd ==
  \/ \E u \in RoomParticipants(participants), typed \in TypedTexts, time \in Times :
        SubmitCheck(Client, u, room.currentRound, typed, time)
  \/ SubmitAdd(Client)
  \/ CalcElimReadParticipants(Client, room.currentRound, config[room.currentRound])
  \/ CalcElimReadResults(Client)
  \/ CalcElimCommit(Client)
  \/ \E indexed \in BOOLEAN : EndRoundReadResults(Client, room.currentRound, indexed)
  \/ EndRoundReadParticipants(Client)
  \/ EndRoundCommit(Client)
  \/ EndRoundUpdateRoom(Client)
  \/ AutoEndReadParticipants(Client, room.currentRound)
  \/ \E indexed \in BOOLEAN : AutoEndReadResults(Client, indexed)
  \/ AutoEndCommit(Client)
  \/ AutoEndUpdateRoom(Client)
  \/ \E r \in Rounds : StartRoundCheck(Client, r)
  \/ StartRoundUpdateRoom(Client)
  \/ StartRoundReadParticipants(Client)
  \/ StartRoundCommit(Client)

SpecEnd == InitEnd /\ [][NextEnd]_vars

----------------------------------------------------------------------------
(* SpecAuto: round 1 is running with every user in it; two clients submit  *)
(* results and call autoEndRound for it, interleaving at every await.      *)

NextAuto ==
  \/ \E p \in Procs, u \in RoomParticipants(participants), typed \in TypedTexts, time \in Times :
        SubmitCheck(p, u, room.currentRound, typed, time)
  \/ \E p \in Procs : SubmitAdd(p)
  \/ \E p \in Procs : AutoEndReadParticipants(p, room.currentRound)
  \/ \E p \in Procs, indexed \in BOOLEAN : AutoEndReadResults(p, indexed)
  \/ \E p \in Procs : AutoEndCommit(p)
  \/ \E p \in Procs : AutoEndUpdateRoom(p)

SpecAuto == InitEnd /\ [][NextAuto]_vars

----------------------------------------------------------------------------
(* SpecAutoFail: round 1 is running with every user in it; participants    *)
(* submit and autoEndRound is called and called again, one call at a time, *)
(* with a store that may reject its writes.                                *)

NextAutoFail ==
  \/ \E u \in RoomParticipants(participants), typed \in TypedTexts, time \in Times :
        SubmitCheck(Client, u, room.currentRound, typed, time)
  \/ SubmitAdd(Client)
  \/ AutoEndReadParticipants(Client, room.currentRound)
  \/ \E indexed \in BOOLEAN : AutoEndReadResults(Client, indexed)
  \/ AutoEndCommit(Client)
  \/ AutoEndUpdateRoom(Client)
  \/ AutoEndStoreFails(Client)

SpecAutoFail == InitEnd /\ [][NextAutoFail]_vars

----------------------------------------------------------------------------
(* SpecSingle: the single-round game.  Round 1 is running with every user  *)
(* in it; participants submit and the administrator ends the round with    *)
(* the single-round endRound, one call at a time.                          *)

NextSingle ==
  \/ \E u \in RoomParticipants(participants), typed \in TypedTexts, time \in Times :
        SubmitCheck(Client, u, 1, typed, time)
  \/ SubmitAdd(Client)
  \/ SingleEndRoundReadConfig(Client, 1)
  \/ CalculateResultsReadResults(Client)
  \/ CalculateResultsReadParticipants(Client)
  \/ CalculateResultsCommit(Client)
  \/ SingleEndRoundUpdateRoom(Client)

SpecSingle == InitEnd /\ [][NextSingle]_vars

----------------------------------------------------------------------------
(* SpecAdmin: the administrator's clean-up calls, on a room that has just  *)
(* been created or on one whose round 1 is running, between the calls     *)
(* that join users, record results and end the round.                      *)

InitAdmin == Init \/ InitEnd

NextAdmin ==
  \/ \E u \in Users : JoinRoomLookup(Client, u)
  \/ JoinRoomWrite(Client)
  \/ \E u \in RoomParticipants(participants), typed \in TypedTexts, time \in Times :
        /\ room.currentRound \in Rounds
        /\ SubmitCheck(Client, u, room.currentRound, typed, time)
  \/ SubmitAdd(Client)
  \/ \E k \in QualifyCounts :
        /\ room.currentRound \in Rounds
        /\ CalcElimReadParticipants(Client, room.currentRound, k)
  \/ CalcElimReadResults(Client)
  \/ CalcElimCommit(Client)
  \/ \E indexed \in BOOLEAN :
        /\ room.currentRound \in Rounds
        /\ EndRoundReadResults(Client, room.currentRound, indexed)
  \/ EndRoundReadParticipants(Client)
  \/ EndRoundCommit(Client)
  \/ EndRoundUpdateRoom(Client)
  \/ /\ room.currentRound \in Rounds
     /\ AutoEndReadParticipants(Client, room.currentRound)
  \/ \E indexed \in BOOLEAN : AutoEndReadResults(Client, indexed)
  \/ AutoEndCommit(Client)
  \/ AutoEndUpdateRoom(Client)
  \/ \E r \in Rounds : ClearReadResults(Client, r)
  \/ ClearCommit(Client)
  \/ DeleteRoomReadResults(Client)
  \/ DeleteRoomCommitResults(Client)
  \/ DeleteRoomReadParticipants(Client)
  \/ DeleteRoomCommitParticipants(Client)
  \/ DeleteRoomConfig(Client)
  \/ DeleteRoomRoom(Client)

SpecAdmin == InitAdmin /\ [][NextAdmin]_vars

----------------------------------------------------------------------------
(* SpecLater: the rounds after the first, one call at a time.  Round 2 is  *)
(* running with u1 the only survivor of round 1 (u2 and u3 forfeited it).  *)
(* The round timer and the administrator both end a round with            *)
(* calculateEliminations; the administrator walks the room through result  *)
(* and leaderboard and starts the next round.                              *)

InitLater ==
  /\ room = [status |-> "round2", currentRound |-> 2, roundStatus |-> "active",
             roundStartedAt |-> 2, roundEndedAt |-> 2]
  /\ participants = [u \in Users |->
                       IF u = "u1" THEN ActiveIn(2) ELSE markEliminated(ActiveIn(1), 1)]
  /\ results = <<Round1Result("u1", 1)>>
  /\ now = 2
  /\ config = [r \in ConfigRounds |-> CHOOSE k \in QualifyCounts : TRUE]
  /\ proc = [p \in Procs |-> Idle]

\* no call is in flight
Quiet == \A p \in Procs : proc[p].pc = "idle"

NextLater ==
  \/ \E u \in Users, typed \in TypedTexts, time \in Times :
        /\ Quiet
        /\ participants[u].status = "active"
        /\ SubmitCheck(Client, u, room.currentRound, typed, time)
  \/ SubmitAdd(Client)
  \/ \E p \in Procs, r \in 2..room.currentRound, k \in QualifyCounts :
        Quiet /\ CalcElimReadParticipants(p, r, k)
  \/ \E p \in Procs : CalcElimReadResults(p)
  \/ \E p \in Procs : CalcElimCommit(p)
  \/ Quiet /\ room.status = RoundState(room.currentRound) /\ transitionToResult(room.currentRound)
  \/ Quiet /\ room.status = ResultState(room.currentRound) /\ transitionToLeaderboard(room.currentRound)
  \/ /\ Quiet
     /\ room.status = LeaderboardState(room.currentRound)
     /\ room.currentRound < NumRounds
     /\ StartRoundCheck(Client, room.currentRound + 1)
  \/ StartRoundUpdateRoom(Client)
  \/ StartRoundReadParticipants(Client)
  \/ StartRoundCommit(Client)

SpecLater == InitLater /\ [][NextLater]_vars

----------------------------------------------------------------------------
(* SpecRank: the ranking of calculateEliminations as a function of the     *)
(* Results.  Round 1 is over; every submitter typed the paragraph without  *)
(* an error, in 1600, 2400 or 3600 seconds.  The store returns the Results *)
(* in the order of their document ids, which is any order.                 *)

RankTimes == {1600, 2400, 3600}

\* the Result submitTypingResult records for a faultless text typed in time seconds
RankRecord(u, time, t) ==
  LET score == calculateScore(Paragraph, Paragraph, time)
  IN [userId |-> u, round |-> 1, accuracy |-> score.accuracy, wpm |-> score.wpm,
      finalScore |-> score.finalScore, submittedAt |-> t]

\* one Result per submitter, stamped in the order of submission
RankLedgers ==
  {[i \in 1..Len(s) |-> RankRecord(s[i][1], s[i][2], i)] :
     s \in {t \in UNION {[1..n -> Users \X RankTimes] : n \in 1..MaxResults} :
              \A i, j \in 1..Len(t) : t[i][1] = t[j][1] => i = j}}

InitRank ==
  /\ room = [status |-> "round1", currentRound |-> 1, roundStatus |-> "active",
             roundStartedAt |-> 1, roundEndedAt |-> 0]
  /\ participants = [u \in Users |-> ActiveIn(1)]
  /\ results \in UNION {Orderings(l) : l \in RankLedgers}
  /\ now = Len(results) + 1
  /\ config = [r \in ConfigRounds |-> CHOOSE k \in QualifyCounts : TRUE]
  /\ proc = [p \in Procs |-> Idle]

NextRank ==
  \/ \E k \in QualifyCounts : CalcElimReadParticipants(Client, room.currentRound, k)
  \/ CalcElimReadResults(Client)
  \/ CalcElimCommit(Client)

SpecRank == InitRank /\ [][NextRank]_vars

----------------------------------------------------------------------------
(* SpecJoin: the lobby with two clients: joinRoom and startRound calls     *)
(* interleave at every await.                                              *)

NextJoin ==
  \/ \E p \in Procs, u \in Users : JoinRoomLookup(p, u)
  \/ \E p \in Procs : JoinRoomWrite(p)
  \/ \E p \in Procs, r \in Rounds : StartRoundCheck(p, r)
  \/ \E p \in Procs : StartRoundUpdateRoom(p)
  \/ \E p \in Procs : StartRoundReadParticipants(p)
  \/ \E p \in Procs : StartRoundCommit(p)

SpecJoin == Init /\ [][NextJoin]_vars

----------------------------------------------------------------------------
(* SpecDelete: the administrator creates a room, starts rounds and calls   *)
(* deleteRoom; users join and submit.  One call at a time.                 *)

NextDelete ==
  \/ \E u \in Users : JoinRoomLookup(Client, u)
  \/ JoinRoomWrite(Client)
  \/ \E r \in Rounds : StartRoundCheck(Client, r)
  \/ StartRoundUpdateRoom(Client)
  \/ StartRoundReadParticipants(Client)
  \/ StartRoundCommit(Client)
  \/ \E u \in RoomParticipants(participants), typed \in TypedTexts, time \in Times :
        /\ room.currentRound \in Rounds
        /\ SubmitCheck(Client, u, room.currentRound, typed, time)
  \/ SubmitAdd(Client)
  \/ DeleteRoomReadResults(Client)
  \/ DeleteRoomCommitResults(Client)
  \/ DeleteRoomReadParticipants(Client)
  \/ DeleteRoomCommitParticipants(Client)
  \/ DeleteRoomConfig(Client)
  \/ DeleteRoomRoom(Client)

SpecDelete == Init /\ [][NextDelete]_vars

----------------------------------------------------------------------------
(* SpecInput: the calls from the creation of the room on, with well-formed *)
(* and malformed arguments.  One call at a time.                           *)

\* round time limits, in tenths of a second
RoundTimes == {0, 5, 600, 36000, 36005}

QualifyInputs == {0, 1, 2}

JoinCodes ==
  { RoomCode,
    <<" ", "a", "b", "1", "2", "c", "d">>,
    <<"A", "B", "1", "2", "C">>,
    <<"A", "B", "-", "2", "C", "D">>,
    <<"A", "B", "1", "2", "C", "D", "1">>,
    <<"D", "C", "2", "1", "B", "A">> }

SubmitTimes == {0 - 1, 0, 60, 3601}

InitInput ==
  /\ room = NoRoom
  /\ participants = [u \in Users |-> NoDoc]
  /\ results = <<>>
  /\ now = 1
  /\ config = <<>>
  /\ proc = [p \in Procs |-> Idle]

NextInput ==
  \/ \E time \in RoundTimes, q \in QualifyInputs : CreateRoomValidate(Client, time, q)
  \/ CreateRoomAddRoom(Client)
  \/ CreateRoomSetConfig(Client)
  \/ \E code \in JoinCodes, u \in Users : JoinRoomByCode(Client, code, u)
  \/ JoinRoomWrite(Client)
  \/ /\ room.status = "waiting"
     /\ StartRoundCheck(Client, 1)
  \/ StartRoundUpdateRoom(Client)
  \/ StartRoundReadParticipants(Client)
  \/ StartRoundCommit(Client)
  \/ \E u \in RoomParticipants(participants), typed \in TypedTexts, time \in SubmitTimes :
        /\ room.currentRound \in Rounds
        /\ SubmitCheck(Client, u, room.currentRound, typed, time)
  \/ SubmitAdd(Client)

SpecInput == InitInput /\ [][NextInput]_vars

----------------------------------------------------------------------------
(* SpecScore: calculateScore as a function of its arguments; two clients   *)
(* call it once each, with reference texts, typed texts and times of every *)
(* kind.                                                                   *)

HelloWorld == <<"h", "e", "l", "l", "o", " ", "w", "o", "r", "l", "d">>

ReferenceArgs ==
  { JsString(HelloWorld), JsString(Paragraph), JsString(<<" ", "a", "b", " ">>),
    JsString(<<>>), JsString(<<" ">>), JsNotString }

TypedArgs ==
  { JsString(HelloWorld), JsString(<<"h", "e", "l", " ", "w", "o", "r">>),
    JsString(HelloWorld \o <<"x", "y">>), JsString(<<"a", "b">>), JsString(<<>>), JsNotString }

TimeArgs == { JsNumber(0 - 5), JsNumber(0), JsNumber(1), JsNumber(60), JsNaN, JsInfinity }

NextScore ==
  \E p \in Procs, originalArg \in ReferenceArgs, typedArg \in TypedArgs, timeArg \in TimeArgs :
     /\ proc[p].op = "none"
     /\ ScoreCall(p, originalArg, typedArg, timeArg)

SpecScore == InitInput /\ [][NextScore]_vars

----------------------------------------------------------------------------
(* SpecCompare: the comparator of calculateEliminations as a function of   *)
(* two Results.  Metrics are thousandths here, so that values closer than  *)
(* 0.01 can be told apart.                                                 *)

\* 0.01 in thousandths
EpsilonThousandths == 10

\* accuracies 94.98, 95, 95.005, 95.01, 95.02 and wpm 50, 50.005, 50.02, 53
CompareAccuracies == {94980, 95000, 95005, 95010, 95020}

CompareSpeeds == {50000, 50005, 50020, 53000}

\* submittedAt.toMillis(); 0 stands for a Result without the stamp
CompareStamps == {0, 1, 2}

CompareArgs ==
  [accuracy : CompareAccuracies, wpm : CompareSpeeds, submittedAt : CompareStamps]

\* results.sort calls the comparator on a pair
CompareCall(p, a, b) ==
  /\ proc[p].pc = "idle"
  /\ proc' = [proc EXCEPT ![p] =
                Return([Call(p, "compare", 0) EXCEPT !.args = <<a, b>>],
                       Ok(FALSE, FALSE, compareWithin(a, b, EpsilonThousandths)))]
  /\ UNCHANGED <<room, participants, results, now, config>>

NextCompare ==
  \E a, b \in CompareArgs :
     /\ proc[Client].op = "none"
     /\ CompareCall(Client, a, b)

SpecCompare == InitInput /\ [][NextCompare]_vars

----------------------------------------------------------------------------
(* SpecScreen: determineUserScreen as a function of the room document and  *)
(* the participant document, for every room state and every participant    *)
(* record, NoDoc standing for a participant that was never read.           *)

ScreenRooms == {[NewRoom EXCEPT !.status = StateOrder[i]] : i \in 1..Len(StateOrder)}

ScreenParticipants ==
  {NoDoc} \cup
  [roomId : {ThisRoom}, status : {"waiting", "active", "qualified", "eliminated"},
   currentRound : 0..NumRounds, isEliminated : BOOLEAN, eliminatedInRound : 0..NumRounds]

NextScreen ==
  \E roomData \in ScreenRooms, participantData \in ScreenParticipants :
     /\ proc[Client].op = "none"
     /\ ScreenCall(Client, roomData, participantData)

SpecScreen == InitInput /\ [][NextScreen]_vars

----------------------------------------------------------------------------
(* SpecRooms: two rooms.  Users join either room, the administrator starts *)
(* the rounds of this room, participants submit and rounds are ended with  *)
(* calculateEliminations.  One call at a time.                             *)

NextRooms ==
  \/ \E u \in Users : JoinRoomLookup(Client, u)
  \/ JoinRoomWrite(Client)
  \/ \E u \in Users : JoinOtherRoomLookup(Client, u)
  \/ JoinOtherRoomWrite(Client)
  \/ \E r \in Rounds : StartRoundCheck(Client, r)
  \/ StartRoundUpdateRoom(Client)
  \/ StartRoundReadParticipants(Client)
  \/ StartRoundCommit(Client)
  \/ \E u \in RoomParticipants(participants), typed \in TypedTexts, time \in Times :
        /\ room.currentRound \in Rounds
        /\ SubmitCheck(Client, u, room.currentRound, typed, time)
  \/ SubmitAdd(Client)
  \/ \E k \in QualifyCounts :
        /\ room.currentRound \in Rounds
        /\ CalcElimReadParticipants(Client, room.currentRound, k)
  \/ CalcElimReadResults(Client)
  \/ CalcElimCommit(Client)

SpecRooms == Init /\ [][NextRooms]_vars

----------------------------------------------------------------------------
(* listenToLeaderboard and getLeaderboard (admin.js) *)

\* error codes the store hands to the error handler of onSnapshot
ErrorCodes == {"failed-precondition", "unavailable"}

\* the participants query returns the documents in the order of their ids
UserOrder == <<"u1", "u2", "u3">>

getParticipantStatusForRound(doc, r) ==
  IF doc.roomId # ThisRoom THEN "Unknown"
  ELSE IF doc.status = "eliminated" THEN "Eliminated"
  ELSE IF doc.status = "qualified" THEN "Qualified"
  ELSE IF r = 3 THEN "Finalist" ELSE "Qualified"

\* { ...result, status }
BoardEntry(x, status) ==
  [userId |-> x.userId, round |-> x.round, accuracy |-> x.accuracy, wpm |-> x.wpm,
   finalScore |-> x.finalScore, submittedAt |-> x.submittedAt, status |-> status]

\* the comparator of leaderboard.sort: the eliminated at the bottom
compareBoard(a, b) ==
  IF a.status = "Eliminated" /\ b.status # "Eliminated" THEN 1
  ELSE IF b.status = "Eliminated" /\ a.status # "Eliminated" THEN 0 - 1
  ELSE compareResults(a, b)

RECURSIVE BoardInsert(_, _)
BoardInsert(sorted, x) ==
  IF sorted = <<>> THEN <<x>>
  ELSE LET last == sorted[Len(sorted)]
       IN IF compareBoard(last, x) <= 0
            THEN Append(sorted, x)
            ELSE Append(BoardInsert(SubSeq(sorted, 1, Len(sorted) - 1), x), last)

RECURSIVE BoardSort(_)
BoardSort(s) ==
  IF s = <<>> THEN <<>>
  ELSE BoardInsert(BoardSort(SubSeq(s, 1, Len(s) - 1)), s[Len(s)])

\* round 2 and later: the users eliminated in an earlier round, without a Result of round r
eliminatedUsers(map, current, r) ==
  IF r > 1
    THEN {u \in RoomParticipants(map) :
            /\ u \notin UserIds(current)
            /\ map[u].status = "eliminated"
            /\ map[u].currentRound < r}
    ELSE {}

\* the Result of each of them in the round the participant record names
getResultsForEliminatedUsers(res, users, map) ==
  LET ids == SelectSeq(UserOrder,
                       LAMBDA u : u \in users /\ existingQuery(res, u, map[u].currentRound) # <<>>)
  IN [i \in 1..Len(ids) |->
        BoardEntry(existingQuery(res, ids[i], map[ids[i]].currentRound)[1], "Eliminated")]

\* the list getLeaderboard returns from the participants map and the Results it read;
\* current: the Results of round r as the query or its fallback returned them
getLeaderboard(map, res, r, current) ==
  LET cur == [i \in 1..Len(current) |->
                BoardEntry(current[i], getParticipantStatusForRound(map[current[i].userId], r))]
      prev == getResultsForEliminatedUsers(res, eliminatedUsers(map, current, r), map)
  IN BoardSort(cur \o prev)

\* onSnapshot is set up; no snapshot has come yet
ListenSubscribe(p, r) ==
  /\ proc[p].pc = "idle"
  /\ proc' = [proc EXCEPT ![p] = [Call(p, "listen", r) EXCEPT !.pc = "lb_push", !.n = 0 - 1]]
  /\ UNCHANGED <<room, participants, results, now, config>>

\* setting up the listener throws: setInterval at once
ListenSetupFails(p, r) ==
  /\ proc[p].pc = "idle"
  /\ proc' = [proc EXCEPT ![p] = [Call(p, "listen", r) EXCEPT !.pc = "lb_poll"]]
  /\ UNCHANGED <<room, participants, results, now, config>>

\* a snapshot comes: the first, and one whenever the Results of the query have changed
ListenSnapshot(p) ==
  /\ proc[p].pc = "lb_push"
  /\ proc[p].n # Len(RoundResults(results, proc[p].r))
  /\ proc' = [proc EXCEPT ![p].pc = "push_parts",
                          ![p].n = Len(RoundResults(results, proc[p].r))]
  /\ UNCHANGED <<room, participants, results, now, config>>

\* the interval of the polling fallback fires
ListenPoll(p) ==
  /\ proc[p].pc = "lb_poll"
  /\ proc' = [proc EXCEPT ![p].pc = "poll_parts"]
  /\ UNCHANGED <<room, participants, results, now, config>>

\* getLeaderboard reads the participants of the room; without any it returns []
GetLeaderboardReadParticipants(p) ==
  /\ proc[p].pc \in {"push_parts", "poll_parts"}
  /\ LET push == proc[p].pc = "push_parts"
     IN IF RoomParticipants(participants) = {}
          THEN proc' = [proc EXCEPT ![p].pc = IF push THEN "lb_push" ELSE "lb_poll",
                                    ![p].board = <<>>,
                                    ![p].by = IF push THEN "push" ELSE "poll"]
          ELSE proc' = [proc EXCEPT ![p].pc = IF push THEN "push_results" ELSE "poll_results",
                                    ![p].map = participants]
  /\ UNCHANGED <<room, participants, results, now, config>>

\* getLeaderboard reads the Results, by the indexed query or by its fallback, and the
\* callback receives the list
GetLeaderboardReadResults(p) ==
  /\ proc[p].pc \in {"push_results", "poll_results"}
  /\ LET push == proc[p].pc = "push_results"
         res == RoundResults(results, proc[p].r)
     IN \E indexed \in BOOLEAN :
          \E current \in IF indexed THEN indexedQuery(res) ELSE {fallbackQuery(res)} :
             proc' = [proc EXCEPT ![p].pc = IF push THEN "lb_push" ELSE "lb_poll",
                                  ![p].board = getLeaderboard(proc[p].map, results, proc[p].r, current),
                                  ![p].by = IF push THEN "push" ELSE "poll",
                                  ![p].map = Idle.map]
  /\ UNCHANGED <<room, participants, results, now, config>>

\* the error handler of onSnapshot; the store sends nothing to the listener afterwards
ListenError(p, code) ==
  /\ proc[p].pc = "lb_push"
  /\ IF code = "failed-precondition"
       THEN proc' = [proc EXCEPT ![p].pc = "lb_poll"]
       ELSE proc' = [proc EXCEPT ![p].pc = "lb_dead", ![p].board = <<>>, ![p].by = "error"]
  /\ UNCHANGED <<room, participants, results, now, config>>

\* the function listenToLeaderboard returned is called
ListenUnsubscribe(p) ==
  /\ proc[p].pc \in {"lb_push", "lb_poll", "lb_dead"}
  /\ proc' = [proc EXCEPT ![p] = Return(@, Ok(FALSE, FALSE, 0))]
  /\ UNCHANGED <<room, participants, results, now, config>>

----------------------------------------------------------------------------
(* SpecStart: a game from the lobby on.  Users choose one of the two rooms *)
(* while this room waits; then the administrator starts the next round at  *)
(* any moment, the active participants submit in round 1, a round is ended *)
(* with calculateEliminations and the room moves on to result and          *)
(* leaderboard.  One call at a time.                                       *)

\* the rounds the administrator starts, one after the other
StartRounds == {1, 2}

NextStart ==
  \/ \E u \in Users : room.currentRound = 0 /\ JoinRoomLookup(Client, u)
  \/ JoinRoomWrite(Client)
  \/ \E u \in Users : room.currentRound = 0 /\ JoinOtherRoomLookup(Client, u)
  \/ JoinOtherRoomWrite(Client)
  \/ \E r \in StartRounds : r = room.currentRound + 1 /\ StartRoundCheck(Client, r)
  \/ StartRoundUpdateRoom(Client)
  \/ StartRoundReadParticipants(Client)
  \/ StartRoundCommit(Client)
  \/ \E u \in RoomParticipants(participants), typed \in TypedTexts, time \in Times :
        /\ room.currentRound = 1
        /\ participants[u].status = "active"
        /\ SubmitCheck(Client, u, room.currentRound, typed, time)
  \/ SubmitAdd(Client)
  \/ \E k \in QualifyCounts :
        /\ room.currentRound \in Rounds
        /\ room.status = RoundState(room.currentRound)
        /\ CalcElimReadParticipants(Client, room.currentRound, k)
  \/ CalcElimReadResults(Client)
  \/ CalcElimCommit(Client)
  \/ /\ proc[Client].pc = "idle"
     /\ room.currentRound \in Rounds
     /\ room.status = RoundState(room.currentRound)
     /\ transitionToResult(room.currentRound)
  \/ /\ proc[Client].pc = "idle"
     /\ room.currentRound \in Rounds
     /\ room.status = ResultState(room.currentRound)
     /\ transitionToLeaderboard(room.currentRound)

SpecStart == Init /\ [][NextStart]_vars

----------------------------------------------------------------------------
(* SpecStartFail: the game of SpecStart with a store that may reject any   *)
(* request of startRound.                                                  *)

NextStartFail ==
  \/ NextStart
  \/ StartRoundStoreFails(Client)

SpecStartFail == Init /\ [][NextStartFail]_vars

----------------------------------------------------------------------------
(* SpecBoard: round 1 is running with every user in it; participants       *)
(* submit and the round is ended with calculateEliminations, while a       *)
(* second client listens to the leaderboard of round 1 or 2.               *)

Listener == "p2"

BoardRounds == {1, 2}

NextBoard ==
  \/ \E u \in RoomParticipants(participants), typed \in TypedTexts, time \in Times :
        SubmitCheck(Client, u, room.currentRound, typed, time)
  \/ SubmitAdd(Client)
  \/ CalcElimReadParticipants(Client, room.currentRound, config[room.currentRound])
  \/ CalcElimReadResults(Client)
  \/ CalcElimCommit(Client)
  \/ \E r \in BoardRounds : ListenSubscribe(Listener, r)
  \/ \E r \in BoardRounds : ListenSetupFails(Listener, r)
  \/ ListenSnapshot(Listener)
  \/ ListenPoll(Listener)
  \/ GetLeaderboardReadParticipants(Listener)
  \/ GetLeaderboardReadResults(Listener)
  \/ \E code \in ErrorCodes : ListenError(Listener, code)
  \/ ListenUnsubscribe(Listener)

SpecBoard == InitEnd /\ [][NextBoard]_vars

----------------------------------------------------------------------------
(* SpecWatch: round 1 is running with every user in it.  The participants  *)
(* submit, the round is ended with calculateEliminations, the room moves   *)
(* on to result, leaderboard and the waiting state of round 2, and round 2 *)
(* is started, one call at a time, while a second client runs              *)
(* listenToRoomState for one of the users.                                 *)

\* the user whose screen the listener drives
WatchUsers == {"u1"}

NextWatch ==
  \/ \E u \in RoomParticipants(participants), typed \in TypedTexts, time \in Times :
        /\ room.currentRound = 1
        /\ participants[u].status = "active"
        /\ SubmitCheck(Client, u, room.currentRound, typed, time)
  \/ SubmitAdd(Client)
  \/ /\ room.status = RoundState(room.currentRound)
     /\ CalcElimReadParticipants(Client, room.currentRound, config[1])
  \/ CalcElimReadResults(Client)
  \/ CalcElimCommit(Client)
  \/ /\ proc[Client].pc = "idle"
     /\ room.status = RoundState(room.currentRound)
     /\ transitionToResult(room.currentRound)
  \/ /\ proc[Client].pc = "idle"
     /\ room.status = ResultState(room.currentRound)
     /\ transitionToLeaderboard(room.currentRound)
  \/ /\ proc[Client].pc = "idle"
     /\ room.status = LeaderboardState(room.currentRound)
     /\ transitionToNextWaiting(room.currentRound)
  \/ \E r \in StartRounds : r = room.currentRound + 1 /\ StartRoundCheck(Client, r)
  \/ StartRoundUpdateRoom(Client)
  \/ StartRoundReadParticipants(Client)
  \/ StartRoundCommit(Client)
  \/ \E u \in WatchUsers : RoomStateSubscribe(Listener, u)
  \/ RoomSnapshot(Listener)
  \/ ParticipantSnapshot(Listener)
  \/ RoomStateUnsubscribe(Listener)

SpecWatch == InitEnd /\ [][NextWatch]_vars

----------------------------------------------------------------------------
(* Vocabulary of the properties *)

CE == "calculateEliminations"

\* the Results recorded for one (user, round) key
ResultsOf(u, r) == {i \in 1..Len(results) : results[i].userId = u /\ results[i].round = r}

\* the Results of round r, in the order they were recorded
Ledger(r) == SelectSeq(results, LAMBDA x : x.round = r)

Submitters(res) == {res[i].userId : i \in 1..Len(res)}

\* still in the contest for round r: in the room and not eliminated in an earlier round
InContention(parts, u, r) ==
  /\ parts[u].roomId = ThisRoom
  /\ ~(parts[u].status = "eliminated" /\ parts[u].eliminatedInRound < r)

QualifiedIn(parts, r) == {u \in Users : parts[u].status = "qualified" /\ parts[u].currentRound = r}

EliminatedIn(parts, r) == {u \in Users : parts[u].status = "eliminated" /\ parts[u].eliminatedInRound = r}

OneResultEach(res) == \A i, j \in 1..Len(res) : res[i].userId = res[j].userId => i = j

\* some Result of a ranks strictly before every Result of b
RanksBefore(res, a, b) ==
  \E i \in 1..Len(res) :
     /\ res[i].userId = a
     /\ \A j \in 1..Len(res) : res[j].userId = b => compareResults(res[i], res[j]) < 0

----------------------------------------------------------------------------
(* Properties of calculateEliminations and submitTypingResult, SpecElim *)

\* C1: for any round r, at most one invocation of calculateEliminations performs
\* the round-r participant batch write: no two invocations for the same round
\* both return having written.
C1_BatchWriteOnce ==
  \A p, q \in Procs :
     (p # q /\ Settled(p, CE) /\ Settled(q, CE) /\ proc[p].r = proc[q].r)
        => ~(proc[p].ret.wrote /\ proc[q].ret.wrote)

\* C2: the results collection holds at most one Result for each
\* (userId, roomId, round), whatever the interleaving of submitTypingResult calls.
C2_OneResultPerKey ==
  \A u \in Users, r \in Rounds : Cardinality(ResultsOf(u, r)) <= 1

\* C5: when a calculateEliminations call for round r with qualify count k commits
\* its batch, having ranked the n > k Results the ledger still holds (one per
\* submitter, every submitter in contention), the registry shows exactly k
\* participants qualified for round r and n - k submitters eliminated in round r,
\* whatever a concurrent call for the same round committed before it.
C5Case(p) ==
  LET r == proc[p].r
      res == Ledger(r)
  IN /\ proc[p].n = Len(res)
     /\ OneResultEach(res)
     /\ \A u \in Submitters(res) : InContention(participants, u, r)
     /\ Len(res) > proc[p].k

C5Outcome(parts, r, k, res) ==
  /\ Cardinality(QualifiedIn(parts, r)) = k
  /\ Cardinality(EliminatedIn(parts, r) \cap Submitters(res)) = Len(res) - k
  /\ QualifiedIn(parts, r) \subseteq Submitters(res)

C5_ConcurrentCallsAgree ==
  [][\A p \in Procs :
       (CalcElimCommit(p) /\ C5Case(p))
          => C5Outcome(participants', proc[p].r, proc[p].k, Ledger(proc[p].r))]_vars

\* two overlapping calls for the same round and qualify count have both committed
\* the same n > k Results
C5_Witness ==
  \E p, q \in Procs :
     /\ p # q /\ Settled(p, CE) /\ Settled(q, CE)
     /\ proc[p].r = proc[q].r /\ proc[p].k = proc[q].k
     /\ proc[p].ret.wrote /\ proc[q].ret.wrote
     /\ proc[p].ret.n = Len(Ledger(proc[p].r)) /\ proc[q].ret.n = proc[p].ret.n
     /\ proc[p].ret.n > proc[p].k
     /\ OneResultEach(Ledger(proc[p].r))
     /\ C5Outcome(participants, proc[p].r, proc[p].k, Ledger(proc[p].r))

\* C8: a calculateEliminations call that starts after a call for the same round
\* has returned having written, with no Result added since that call read the
\* ledger, returns success (already processed) at once and leaves every
\* participant record as the first call left it.
C8_SecondCallIdempotent ==
  [][\A p, q \in Procs, k \in QualifyCounts :
       ( /\ p # q
         /\ Settled(q, CE) /\ proc[q].ret.wrote
         /\ proc[q].ret.n = Len(Ledger(proc[q].r))
         /\ CalcElimReadParticipants(p, proc[q].r, k) )
       => /\ proc'[p].pc = "idle"
          /\ proc'[p].ret.success /\ proc'[p].ret.flag /\ ~proc'[p].ret.wrote
          /\ participants' = participants]_vars

C8_Witness ==
  \E p, q \in Procs :
     /\ p # q /\ Settled(p, CE) /\ Settled(q, CE) /\ proc[p].r = proc[q].r
     /\ proc[q].ret.wrote /\ proc[q].ret.n = Len(Ledger(proc[q].r))
     /\ proc[p].ret.success /\ proc[p].ret.flag

\* C9: a submitTypingResult call for a key that already has its one Result
\* returns success with alreadySubmitted and the accuracy, wpm and finalScore of
\* that Result, whatever text it carries, and adds no record.
C9_ResubmitReturnsFirst ==
  [][\A p \in Procs :
       LET u == proc'[p].u
           r == proc'[p].r
       IN ( /\ proc[p].pc = "idle" /\ proc'[p].op = "submit"
            /\ \E time \in Times : SubmitCheck(p, u, r, proc'[p].typed, time)
            /\ Cardinality(ResultsOf(u, r)) = 1 )
          => LET first == results[CHOOSE i \in ResultsOf(u, r) : TRUE]
             IN /\ proc'[p].pc = "idle"
                /\ proc'[p].ret.success /\ proc'[p].ret.flag
                /\ proc'[p].ret.score.accuracy = first.accuracy
                /\ proc'[p].ret.score.wpm = first.wpm
                /\ proc'[p].ret.score.finalScore = first.finalScore
                /\ results' = results]_vars

\* the second call carried a text that scores differently from the recorded Result
C9_Witness ==
  \E p \in Procs :
     /\ Settled(p, "submit") /\ proc[p].ret.success /\ proc[p].ret.flag
     /\ Cardinality(ResultsOf(proc[p].u, proc[p].r)) = 1
     /\ calculateScore(Paragraph, proc[p].typed, 60).accuracy # proc[p].ret.score.accuracy

----------------------------------------------------------------------------
(* Properties of the round in round 2, SpecElim2 *)

\* C7: with qualify count k and n in-contention submitters among the Results a
\* calculateEliminations call ranked, its batch leaves exactly min(k, n)
\* participants qualified for the round, all of them in-contention submitters,
\* each ranking before every in-contention submitter that is not qualified.
C7_TopKQualify ==
  [][\A p \in Procs :
       CalcElimCommit(p) =>
         LET r == proc[p].r
             res == SubSeq(Ledger(r), 1, proc[p].n)
             S == {u \in Submitters(res) : InContention(participants, u, r)}
             Q == QualifiedIn(participants', r)
         IN /\ Cardinality(Q) = Min(proc[p].k, Cardinality(S))
            /\ Q \subseteq S
            /\ \A a \in Q, b \in S \ Q : RanksBefore(res, a, b)]_vars

----------------------------------------------------------------------------
(* Properties of the participant lifecycle, SpecEnd *)

\* C6: once calculateEliminations for round r has returned success, every
\* participant still in contention for round r who has no Result for round r is
\* eliminated with eliminatedInRound = r (and so is not qualified).
C6_ForfeitEliminated ==
  \A p \in Procs :
     (Settled(p, CE) /\ proc[p].ret.success)
        => \A u \in Users :
              (InContention(participants, u, proc[p].r) /\ ResultsOf(u, proc[p].r) = {})
                 => /\ participants[u].status = "eliminated"
                    /\ participants[u].eliminatedInRound = proc[p].r


\* C3: a participant whose status is eliminated never becomes active or
\* qualified again, whatever call acts next.
C3_EliminatedStaysOut ==
  [][\A u \in Users :
       participants[u].status = "eliminated"
          => participants'[u].status \notin {"active", "qualified"}]_vars

----------------------------------------------------------------------------
(* Properties of the room state machine, Spec *)

\* the states startRound(r) may start from
startRoundPredecessors(r) ==
  IF r = 1 THEN {"waiting"} ELSE {WaitingState(r), LeaderboardState(r - 1)}

\* C4: a startRound(r) call made when the room status is not waiting (r = 1),
\* or not round<r>_waiting or round<r-1>_leaderboard (r > 1), returns
\* success=false at once and changes neither the room nor any participant.
C4_StartRoundGuard ==
  [][\A p \in Procs, r \in Rounds :
       (StartRoundCheck(p, r) /\ room.status \notin startRoundPredecessors(r))
          => /\ proc'[p].pc = "idle" /\ ~proc'[p].ret.success
             /\ room' = room
             /\ participants' = participants]_vars

\* C10: every change of the room status moves it to the next state of the chain
\* waiting, round1, round1_result, round1_leaderboard, round2_waiting, ...,
\* round3_leaderboard, completed; completed is never left.
C10_ForwardOnly ==
  [][room'.status # room.status
       => /\ room.status # "completed"
          /\ StateIndex(room'.status) = StateIndex(room.status) + 1]_vars

----------------------------------------------------------------------------
(* Properties of autoEndRound, SpecAuto *)

AE == "autoEndRound"

\* C11: whatever the interleaving of autoEndRound and submitTypingResult calls,
\* the participants qualified for a round are never more than the round's
\* configured qualifyCount.
C11_AutoEndQualifyCap ==
  \A r \in DOMAIN config : Cardinality(QualifiedIn(participants, r)) <= config[r]

\* C12: once autoEndRound for round r has returned success, no participant is
\* left active in round r without a Result for round r.
C12_AutoEndForfeit ==
  \A p \in Procs :
     (Settled(p, AE) /\ proc[p].ret.success)
        => \A u \in Users :
              (participants[u].currentRound = proc[p].r /\ ResultsOf(u, proc[p].r) = {})
                 => participants[u].status # "active"

----------------------------------------------------------------------------
(* Properties of a rejected batch, SpecFail *)

\* a calculateEliminations call that returned the error of its batch commit
FailedAtCommit(p) == Settled(p, CE) /\ ~proc[p].ret.success /\ proc[p].ret.n > 0

\* C20: a calculateEliminations call whose batch commit fails returns
\* success=false and leaves every participant as it was; a later call for the
\* same round and qualify count over the same Results then commits the
\* assignment the failed attempt had computed.
C20_FailedCommitRetry ==
  [][\A p \in Procs :
       /\ CalcElimCommitFails(p)
            => /\ proc'[p].pc = "idle" /\ ~proc'[p].ret.success
               /\ participants' = participants
       /\ \A q \in Procs :
            ( /\ CalcElimCommit(p)
              /\ FailedAtCommit(q)
              /\ proc[q].r = proc[p].r /\ proc[q].k = proc[p].k
              /\ proc[q].ret.n = proc[p].n )
            => /\ proc'[p].ret.success /\ proc'[p].ret.wrote
               /\ QualifiedIn(participants', proc[p].r) = proc[q].qual \cap proc[p].snap
               /\ \A u \in proc[p].snap \ proc[q].qual :
                     participants'[u].status = "eliminated"]_vars

\* the retry has committed the assignment of the failed attempt
C20_Witness ==
  \E p, q \in Procs :
     /\ p # q /\ FailedAtCommit(q) /\ Settled(p, CE) /\ proc[p].ret.wrote
     /\ proc[q].r = proc[p].r /\ proc[q].k = proc[p].k /\ proc[q].ret.n = proc[p].ret.n
     /\ QualifiedIn(participants, proc[p].r) = proc[q].qual
     /\ proc[q].qual # {}

----------------------------------------------------------------------------
(* More properties of calculateEliminations *)

\* the participants that carry the outcome of round r
Outcome(parts, r) ==
  {u \in Users : parts[u].status \in {"qualified", "eliminated"} /\ parts[u].currentRound = r}

\* C13 (SpecEnd): of the participants in contention for the running round,
\* either all carry the round's outcome or none does.
C13_OutcomeAllOrNone ==
  LET r == room.currentRound
      C == {u \in Users : InContention(participants, u, r)}
  IN Outcome(participants, r) \cap C \in {{}, C}

\* C19 (SpecElim): a calculateEliminations call that finds no Result for the
\* round returns success=false and changes no participant and no room field,
\* so that a later call finds the round as the failed one found it.
C19_NoResultsNoChange ==
  [][\A p \in Procs :
       (CalcElimReadResults(p) /\ Ledger(proc[p].r) = <<>>)
          => /\ proc'[p].pc = "idle" /\ ~proc'[p].ret.success
             /\ participants' = participants
             /\ room' = room]_vars

\* one call failed for want of Results, a later one ranked the Results that
\* arrived and wrote the outcome
C19_Witness ==
  \E p, q \in Procs :
     /\ p # q /\ Settled(q, CE) /\ ~proc[q].ret.success /\ proc[q].ret.n = 0
     /\ Settled(p, CE) /\ proc[p].r = proc[q].r
     /\ proc[p].ret.wrote /\ proc[p].ret.n > 0
     /\ Outcome(participants, proc[p].r) = Users

----------------------------------------------------------------------------
(* Properties of the result ledger *)

----------------------------------------------------------------------------
(* Properties of startRound on participants, SpecEnd *)

\* C17: a participant who is qualified for round N is made active only for
\* round N+1: no step turns status qualified with currentRound N into status
\* active with a currentRound other than N+1.
C17_QualifiedAdvancesByOne ==
  [][\A u \in Users :
       (participants[u].status = "qualified" /\ participants'[u].status = "active")
          => participants'[u].currentRound = participants[u].currentRound + 1]_vars

----------------------------------------------------------------------------
(* Properties of the result state, Spec *)

\* C18: the room is in round<r>_result, or in the later round<r>_leaderboard,
\* only when the elimination of round r has been written: every participant
\* still in contention for round r then carries the round-r outcome.
C18_ResultAfterElimination ==
  \A r \in Rounds :
     room.status \in {ResultState(r), LeaderboardState(r)}
        => \A u \in Users : InContention(participants, u, r) => u \in Outcome(participants, r)

----------------------------------------------------------------------------
(* Properties of a repeated round end, SpecLater *)

\* C15: once a calculateEliminations call for round r has returned success,
\* every step of a later call for the same r leaves every participant record
\* as it is, and the later call returns alreadyProcessed; also when
\* startRound(r+1) has run in between.
C15_LaterCallIdempotent ==
  [][\A p, q \in Procs :
       (/\ p # q
        /\ Settled(p, CE)
        /\ proc[p].ret.success
        /\ proc'[q] # proc[q]
        /\ proc'[q].op = CE
        /\ proc'[q].r = proc[p].r)
          => /\ participants' = participants
             /\ proc'[q].pc = "idle" => (proc'[q].ret.success /\ proc'[q].ret.flag)]_vars

----------------------------------------------------------------------------
(* Properties of the ranking, SpecRank *)

\* the comparator orders the Results of a ledger totally
TotalOrderOn(res) ==
  /\ \A i, j \in 1..Len(res) : i # j => compareResults(res[i], res[j]) # 0
  /\ \A i, j, l \in 1..Len(res) :
        (compareResults(res[i], res[j]) < 0 /\ compareResults(res[j], res[l]) < 0)
           => compareResults(res[i], res[l]) < 0

\* C16: on the Results of a round the comparator is a total order (transitive,
\* and never 0 between two distinct Results), so the ranking is the same for
\* every order in which the store returns them: the qualified set a
\* calculateEliminations call has written is the one every such order gives.
C16_RankingDeterministic ==
  \A p \in Procs :
     (Settled(p, CE) /\ proc[p].ret.wrote)
        => /\ TotalOrderOn(Ledger(1))
           /\ \A o \in Orderings(Ledger(1)) :
                 /\ SortResults(o) = SortResults(Ledger(1))
                 /\ QualifiedIn(participants, 1) = TopUserIds(SortResults(o), proc[p].k)

----------------------------------------------------------------------------
(* Properties of joinRoom, SpecJoin *)

\* C21: once round 1 of the room has started, no step of a joinRoom call adds
\* a participant or changes a participant record, and a call that returns
\* then succeeds exactly for a user who is a participant already.
C21_JoinLockedAfterStart ==
  [][\A p \in Procs :
       (/\ room.currentRound >= 1
        /\ proc'[p].op = "joinRoom"
        /\ proc'[p] # proc[p])
          => /\ participants' = participants
             /\ proc'[p].pc = "idle"
                   => (proc'[p].ret.success <=> participants[proc'[p].u].roomId = ThisRoom)]_vars

----------------------------------------------------------------------------
(* Properties of the two result queries of endRound and autoEndRound, SpecEnd *)

\* C22: the qualified set an endRound or autoEndRound call takes from the
\* Results it has read is the same whether the indexed query or the in-memory
\* fallback ranked them: it is always the set the fallback ranking gives.
C22_SamePolicyBothQueries ==
  [][\A p \in Procs :
       (/\ proc[p].pc \in {"idle", "ae_results"}
        /\ proc'[p].pc \in {"er_read", "ae_commit"})
          => proc'[p].qual =
               TopUserIds(SortResults(Ledger(proc'[p].r)), config[proc'[p].r])]_vars

----------------------------------------------------------------------------
(* Properties of deleteRoom, SpecDelete *)

\* a round of the room is in progress
RoundInProgress == \E r \in Rounds : room.status = RoundState(r)

\* C23: deleteRoom removes nothing of a room while a round of it is in
\* progress: a step of a deleteRoom call taken then leaves the room document,
\* its participants, its Results and its configuration in place.
C23_NoDeleteWhileActive ==
  [][\A p \in Procs :
       (/\ RoundInProgress
        /\ proc[p].op = "deleteRoom"
        /\ proc'[p] # proc[p])
          => UNCHANGED <<room, participants, results, config>>]_vars

----------------------------------------------------------------------------
(* Properties of the input checks, SpecInput *)

\* six letters or digits, in either case, with blanks around them or not
SixLettersOrDigits(code) ==
  /\ Len(Trim(code)) = 6
  /\ \A i \in 1..Len(Trim(code)) :
        Trim(code)[i] \in {"A", "B", "C", "D", "a", "b", "c", "d", "1", "2"}

\* the call client p starts in this step
Starts(p, op) == proc[p].pc = "idle" /\ proc'[p] # proc[p] /\ proc'[p].op = op

\* the call returns in the step that starts it, with success = false, and the
\* step writes nothing to the store
RefusedAtOnce(p) ==
  /\ proc'[p].pc = "idle"
  /\ ~proc'[p].ret.success
  /\ UNCHANGED <<room, participants, results, config>>

\* C24: a malformed argument is refused before anything is written: createRoom
\* with a round time limit outside 1..3600 seconds or a qualifyCount below 1,
\* joinRoom with a room code that is not six letters or digits, and
\* submitTypingResult with a time <= 0 or > 3600 return success = false in
\* their first step and write nothing.
C24_MalformedInputRefused ==
  [][\A p \in Procs :
       /\ (Starts(p, "createRoom") /\ (proc'[p].time < 10 \/ proc'[p].time > 36000 \/ proc'[p].k < 1))
             => RefusedAtOnce(p)
       /\ (Starts(p, "joinRoom") /\ proc'[p].code # <<>> /\ ~SixLettersOrDigits(proc'[p].code))
             => RefusedAtOnce(p)
       /\ (Starts(p, "submit") /\ (proc'[p].time <= 0 \/ proc'[p].time > 3600))
             => RefusedAtOnce(p)]_vars

----------------------------------------------------------------------------
(* Properties of calculateScore, SpecScore *)

Scored(p) == Settled(p, "calculateScore")

\* C25: whatever the reference text, the typed text and the time, the
\* accuracy calculateScore returns lies between 0 and 100 (in hundredths:
\* between 0 and 10000).
C25_AccuracyInRange ==
  \A p \in Procs :
     Scored(p) => (proc[p].ret.score.accuracy >= 0 /\ proc[p].ret.score.accuracy <= 10000)

\* more was typed than the reference holds, and every reference character is right
C25_Witness ==
  \E p \in Procs :
     /\ Scored(p)
     /\ proc[p].args[1].type = "string" /\ proc[p].args[2].type = "string"
     /\ Len(proc[p].args[2].val) > Len(proc[p].args[1].val)
     /\ proc[p].ret.score.accuracy = 10000

\* the time argument is not a positive finite number
BadTime(timeArg) == timeArg.type # "number" \/ timeArg.val <= 0

\* the reference is no string, or an empty or blank one
NoReference(originalArg) == originalArg.type # "string" \/ Trim(originalArg.val) = <<>>

\* C26: with an empty or invalid reference text calculateScore returns zero
\* for every metric; with a time that is <= 0 or not finite it returns what it
\* returns for the same texts and a time of exactly 1 second.
C26_DefensiveDefaults ==
  \A p, q \in Procs :
     /\ (Scored(p) /\ NoReference(proc[p].args[1])) => proc[p].ret.score = ZeroScore
     /\ (/\ Scored(p) /\ Scored(q)
         /\ proc[p].args[1] = proc[q].args[1]
         /\ proc[p].args[2] = proc[q].args[2]
         /\ BadTime(proc[p].args[3])
         /\ proc[q].args[3] = JsNumber(1))
           => proc[p].ret.score = proc[q].ret.score

\* the same texts scored with a bad time and with 1 second, and the score is not zero
C26_Witness ==
  \E p, q \in Procs :
     /\ Scored(p) /\ Scored(q)
     /\ proc[p].args[1] = proc[q].args[1]
     /\ proc[p].args[2] = proc[q].args[2]
     /\ BadTime(proc[p].args[3])
     /\ proc[q].args[3] = JsNumber(1)
     /\ proc[p].ret.score.wpm > 0

\* text.split(' ')
RECURSIVE Split(_)
Split(text) ==
  IF \A i \in 1..Len(text) : text[i] # " " THEN <<text>>
  ELSE LET i == CHOOSE j \in 1..Len(text) : text[j] = " " /\ \A l \in 1..(j - 1) : text[l] # " "
       IN <<SubSeq(text, 1, i - 1)>> \o Split(SubSeq(text, i + 1, Len(text)))

\* reference words matched exactly by the typed word at the same position, over
\* the reference words, as a percentage in hundredths
WordAccuracy(original, typed) ==
  LET originalWords == Split(Trim(original))
      typedWords == Split(typed)
      correctWords == Cardinality({i \in 1..Len(originalWords) :
                                     i <= Len(typedWords) /\ originalWords[i] = typedWords[i]})
  IN RoundHundredths(correctWords * 100, Len(originalWords))

\* C27: accuracy is counted word by word: it is the share of reference words
\* the typed text matches exactly at the same position, so a partly typed
\* word earns nothing ("hello world" typed as "hel wor" has accuracy 0).
C27_AccuracyWordByWord ==
  \A p \in Procs :
     (Scored(p) /\ ~NoReference(proc[p].args[1]) /\ proc[p].args[2].type = "string")
        => proc[p].ret.score.accuracy = WordAccuracy(proc[p].args[1].val, proc[p].args[2].val)

----------------------------------------------------------------------------
(* Properties across rooms, SpecRooms *)

\* C28: a joinRoom call for the other room changes neither the set of
\* participants of this room nor any field of a participant record of this
\* room.
C28_JoinLeavesOtherRoomAlone ==
  [][\A p \in Procs :
       (/\ proc'[p].op = "joinRoom"
        /\ proc'[p].code = OtherRoomCode
        /\ proc'[p] # proc[p])
          => \A u \in Users :
                participants[u].roomId = ThisRoom => participants'[u] = participants[u]]_vars

\* eliminated, by either of the two marks the code reads
IsOut(doc) == doc.status = "eliminated" \/ doc.isEliminated

\* C30: when a startRound(r) call succeeds, the room has status round<r>,
\* currentRound r and the start stamp of this call, every participant of the
\* room who is not eliminated has become active with currentRound r, and every
\* eliminated participant and every participant of the other room is as it was.
C30_StartRoundEffect ==
  [][\A p \in Procs :
       (/\ proc[p].pc = "sr_commit"
        /\ proc'[p].pc = "idle"
        /\ proc'[p].ret.success)
          => /\ room'.status = RoundState(proc[p].r)
             /\ room'.currentRound = proc[p].r
             /\ room'.roundStartedAt = now
             /\ \A u \in Users :
                   IF participants[u].roomId = ThisRoom /\ ~IsOut(participants[u])
                     THEN participants'[u] =
                            [participants[u] EXCEPT !.status = "active", !.currentRound = proc[p].r]
                     ELSE participants'[u] = participants[u]]_vars

\* round 2 has been started with a survivor, an eliminated participant and a
\* participant of the other room
C30_Witness ==
  /\ Settled(Client, "startRound") /\ proc[Client].ret.success /\ proc[Client].r = 2
  /\ \E u \in Users : participants[u].roomId = ThisRoom /\ participants[u].status = "active"
                         /\ participants[u].currentRound = 2
  /\ \E u \in Users : participants[u].roomId = ThisRoom /\ participants[u].status = "eliminated"
  /\ \E u \in Users : participants[u].roomId = OtherRoom

----------------------------------------------------------------------------
(* Properties of listenToLeaderboard, SpecBoard *)

\* C29: when the push subscription of a leaderboard listener fails, the
\* listener is polling afterwards, and the failure does not hand the callback an
\* empty list while Results of the round exist.
C29_PollingWhenPushFails ==
  [][\A p \in Procs :
       (/\ proc[p].pc = "lb_push"
        /\ proc'[p].pc \notin {"lb_push", "push_parts", "idle"})
          => /\ proc'[p].pc = "lb_poll"
             /\ ~(/\ proc'[p].by = "error"
                  /\ proc'[p].board = <<>>
                  /\ RoundResults(results, proc[p].r) # <<>>)]_vars

----------------------------------------------------------------------------
(* Elimination racing with submissions, SpecElim *)

\* the status a ranking of the Results res with k places gives to a participant
StatusFrom(res, k, u) ==
  IF u \in TopUserIds(SortResults(res), k) THEN "qualified" ELSE "eliminated"

\* C31: whenever a calculateEliminations call for round r with k places commits,
\* while other calls and submissions race with it, the statuses of all
\* participants are those its own snapshot of the Results assigns (the first n
\* Results of the round), with at most k participants qualified; so the statuses
\* left when every call has settled are those of the last batch, not a mixture.
C31_OneSnapshotDecides ==
  [][\A p \in Procs :
       (/\ proc[p].pc = "ce_commit"
        /\ proc'[p].pc = "idle"
        /\ proc'[p].ret.wrote)
          => LET r == proc[p].r
                 res == SubSeq(Ledger(r), 1, proc[p].n)
             IN /\ \A u \in Users :
                      participants'[u].status = StatusFrom(res, proc[p].k, u)
                /\ Cardinality(QualifiedIn(participants', r)) <= proc[p].k]_vars

\* two overlapping calls for the same round have both written, from snapshots of
\* different length: a submission came between their reads
C31_Witness ==
  \E p, q \in Procs :
     /\ p # q /\ Settled(p, CE) /\ Settled(q, CE)
     /\ proc[p].r = proc[q].r /\ proc[p].k = proc[q].k
     /\ proc[p].ret.wrote /\ proc[q].ret.wrote
     /\ proc[p].ret.n < proc[q].ret.n
     /\ \A u \in Users :
           participants[u].status =
             StatusFrom(SubSeq(Ledger(proc[q].r), 1, proc[q].ret.n), proc[q].k, u)
     /\ \E u \in Users :
           participants[u].status #
             StatusFrom(SubSeq(Ledger(proc[p].r), 1, proc[p].ret.n), proc[p].k, u)

----------------------------------------------------------------------------
(* Results of participants eliminated earlier, SpecElim2 *)

\* the Results of res that come from participants still in contention for round r
InContentionResults(parts, res, r) ==
  SelectSeq(res, LAMBDA x : InContention(parts, x.userId, r))

\* C32: when a calculateEliminations call for round r commits, a Result recorded
\* for round r by a participant eliminated in an earlier round has had no effect:
\* every participant in contention has the status that the ranking of the other
\* Results gives, and the participant eliminated earlier is as before.
C32_EliminatedResultIgnored ==
  [][\A p \in Procs :
       (/\ proc[p].pc = "ce_commit"
        /\ proc'[p].pc = "idle"
        /\ proc'[p].ret.wrote)
          => LET r == proc[p].r
                 res == SubSeq(Ledger(r), 1, proc[p].n)
                 fair == InContentionResults(participants, res, r)
             IN \A u \in Users :
                   IF InContention(participants, u, r)
                     THEN participants'[u].status = StatusFrom(fair, proc[p].k, u)
                     ELSE participants'[u] = participants[u]]_vars

----------------------------------------------------------------------------
(* Properties of a failing startRound, SpecStartFail *)

\* C33: when a startRound call returns success = false, the room has the status
\* the call found when it began, and the step that returns has changed no
\* participant.
C33_StartRoundAllOrNothing ==
  [][\A p \in Procs :
       (/\ proc'[p].op = "startRound"
        /\ proc'[p].pc = "idle"
        /\ proc'[p] # proc[p]
        /\ ~proc'[p].ret.success)
          => /\ room'.status = (IF proc[p].pc = "idle" THEN room.status ELSE proc[p].seen)
             /\ participants' = participants]_vars

----------------------------------------------------------------------------
(* Properties of autoEndRound with a failing store, SpecAutoFail *)

\* the room shows round r as ended
RoundClosed(r) ==
  /\ room.roundStatus = (IF r = 3 THEN "completed" ELSE "waiting")
  /\ room.roundEndedAt > 0

\* C34: whenever an autoEndRound call for round r has returned success, with or
\* without alreadyProcessed, the room's roundStatus is waiting (completed for
\* round 3) and roundEndedAt is stamped.
C34_SuccessMeansRoundClosed ==
  \A p \in Procs :
     (Settled(p, "autoEndRound") /\ proc[p].ret.success) => RoundClosed(proc[p].r)

----------------------------------------------------------------------------
(* Properties of transitionToNextWaiting, Spec *)

\* C35: transitionToNextWaiting(r) sets the room status to round<r+1>_waiting
\* when r is not the final round and to completed when r is the final round.
C35_NextWaitingOrCompleted ==
  [][\A r \in Rounds :
       transitionToNextWaiting(r)
          => room'.status = (IF r = NumRounds THEN "completed" ELSE WaitingState(r + 1))]_vars

\* the final round was started and the room has been moved on from it
C35_Witness == room.status = "completed" /\ room.currentRound = NumRounds

----------------------------------------------------------------------------
(* Properties of the comparator, SpecCompare *)

\* the comparator put a before b / b before a
RankedFirst(p) == proc[p].ret.n < 0

RankedSecond(p) == proc[p].ret.n > 0

\* more than 0.01 apart, in thousandths
Apart(x, y) == x - y > 10 \/ y - x > 10

ExampleA == [accuracy |-> 95000, wpm |-> 50000, submittedAt |-> 1]

ExampleB == [accuracy |-> 95005, wpm |-> 53000, submittedAt |-> 2]

----------------------------------------------------------------------------
(* Properties of determineUserScreen, SpecScreen *)

\* the room waits for round r
WaitsFor(roomData, r) == roomData.status = WaitingState(r)

\* C39: for a room status round<r>_waiting with r > 1, determineUserScreen lets a
\* participant proceed, on the waiting screen, only if the participant's status
\* is qualified and their currentRound is at least r - 1; every other
\* participant gets the eliminated screen with canProceed = false.
C39_WaitingOnlyForQualified ==
  \A p \in Procs, r \in 2..NumRounds :
     (Settled(p, "determineUserScreen") /\ WaitsFor(proc[p].lastRoomData, r)) =>
        LET doc == proc[p].lastParticipantData
            info == proc[p].shown
        IN /\ info.canProceed => /\ doc.status = "qualified"
                                 /\ doc.currentRound >= r - 1
                                 /\ info.screen = "waiting"
           /\ ~(doc.status = "qualified" /\ doc.currentRound >= r - 1)
                 => (info.screen = "eliminated" /\ ~info.canProceed)
           /\ ~info.canProceed => info.screen = "eliminated"

\* a participant qualified in round 1 is let into the waiting screen of round 2
C39_Witness ==
  /\ Settled(Client, "determineUserScreen")
  /\ WaitsFor(proc[Client].lastRoomData, 2)
  /\ proc[Client].lastParticipantData.status = "qualified"
  /\ proc[Client].lastParticipantData.currentRound = 1
  /\ proc[Client].shown.canProceed
  /\ proc[Client].shown.screen = "waiting"

----------------------------------------------------------------------------
(* Properties of listenToRoomState, SpecWatch *)

Watching(p) == proc[p].pc = "watching"

\* C37: while the latest participant snapshot of a listener is eliminated (status
\* eliminated or isEliminated), the callback the listener invoked last, whatever
\* the room state, is onEliminated and never onStateChange.
C37_EliminatedNeverProceeds ==
  \A p \in Procs :
     (/\ Watching(p)
      /\ proc[p].lastRoomData # NoRoom
      /\ IsOut(proc[p].lastParticipantData))
        => proc[p].shown.callback = "onEliminated"

\* the listener of an eliminated user has seen round 2 begin
C37_Witness ==
  /\ Watching(Listener)
  /\ IsOut(proc[Listener].lastParticipantData)
  /\ proc[Listener].lastRoomData.status = RoundState(2)
  /\ proc[Listener].shown.callback = "onEliminated"

\* the participant record in the store is not qualified for the round the room waits for
NotQualifiedForWaitedRound(doc) ==
  \E r \in 2..NumRounds :
     /\ room.status = WaitingState(r)
     /\ ~(doc.status = "qualified" /\ doc.currentRound >= r - 1)

\* C38: whenever a snapshot, of the room or of the participant, makes the
\* listener invoke onEliminated, the participant record in the store is
\* eliminated or not qualified for the round being waited for.
C38_EliminatedOnlyIfStoredSo ==
  [][\A p \in Procs :
       (/\ proc[p].pc = "watching"
        /\ proc'[p].pc = "watching"
        /\ proc'[p] # proc[p]
        /\ proc'[p].shown.callback = "onEliminated")
          => \/ IsOut(participants[proc[p].u])
             \/ NotQualifiedForWaitedRound(participants[proc[p].u])]_vars

----------------------------------------------------------------------------
(* Properties of the single-round endRound, SpecSingle *)

\* C40: when a single-round endRound call returns and calculateResults had
\* failed because no Result of the round exists, the call has left the
\* room status unchanged and returns success = false.
C40_CompletedOnlyAfterResults ==
  [][\A p \in Procs :
       (/\ proc'[p].op = "endRoundSingle"
        /\ proc[p].pc # "idle"
        /\ proc'[p].pc = "idle"
        /\ Ledger(proc[p].r) = <<>>)
          => /\ room'.status = room.status
             /\ ~proc'[p].ret.success]_vars

====
